---- MODULE Spec2Model ----
(***************************************************************************)
(* Verification model of the dungeon-crawler server: the turn engine, the  *)
(* delta engine and the client mirror (gameLogic.ts, GameState), the map   *)
(* generator's seeding (mapGenerator.ts), the session manager              *)
(* (gameSessionManager.ts) and the WebSocket connection handler            *)
(* (routes/game.ts).                                                       *)
(*                                                                         *)
(* Encodings.  A cell is a pair <<x, y>>.  The dense tile array is kept as *)
(* the set of its non-wall cells plus the stairs cell; the dense fog array *)
(* is kept as the set of its true cells.  A missing lastSeenPlayer is the  *)
(* empty tuple; an empty equipment slot is the string "none" and a filled  *)
(* one holds the equipment's catalogue id.  Random draws (Math.random,     *)
(* randomUUID) are parameters of the operators that consume them, chosen   *)
(* by the actions from bounded sets.                                       *)
(***************************************************************************)
EXTENDS Integers, Sequences, FiniteSets, TLC

VARIABLES
    game,       \* the authoritative GameState of the turn-engine specification
    turn,       \* record of the last turn: intent, state before, events, deltas, AI log
    turns,      \* number of turns processed (bounded by MaxTurns)
    sess,       \* session manager: activeSessions entry of the game id ("none" if absent)
    cache,      \* session manager: gameStateCache entry of the game id ("none" if absent)
    db,         \* durable store: the games document of the game id
    board,      \* durable store: leaderboard inserts, in order
    conns,      \* per-connection handler state (socket, queue, flag, program counter)
    sent,       \* messages sent to each socket, in order
    budget,     \* client messages and store failures still allowed (bounds)
    proc        \* the server process: idle sweeper, signal handlers, store client

gameVars == <<game, turn, turns>>
connVars == <<sess, cache, db, board, conns, sent, budget, proc>>
vars == <<game, turn, turns, sess, cache, db, board, conns, sent, budget, proc>>

----------------------------------------------------------------------------
(* Program constants *)

MAP_WIDTH == 40
MAP_HEIGHT == 24
VISION_RADIUS == 5
MAX_PATHFINDING_ENEMIES == 5
WIN_FLOOR == 20
DESCEND_SCORE == 100
WIN_SCORE == 1000
LEVEL_HP_GAIN == 3
POTION_VALUE == 10
DEFAULT_MAX_DISTANCE == 20

(* Bounds of the model *)

MaxTurns == 6
MaxSockets == 2
MaxMessages == 2
MaxFailures == 1

None == "none"
NoCell == <<>>

Min(a, b) == IF a < b THEN a ELSE b
Max(a, b) == IF a > b THEN a ELSE b
Abs(a) == IF a < 0 THEN -a ELSE a

RECURSIVE SeqSum(_)
SeqSum(s) == IF s = <<>> THEN 0 ELSE Head(s) + SeqSum(Tail(s))

SelectSeqIdx(s, Test(_)) ==
    \* indices of s whose element satisfies Test, ascending
    {i \in 1..Len(s) : Test(s[i])}

FirstIdx(s, Test(_)) ==
    \* Array.prototype.findIndex / find: the least matching index, 0 if none
    LET I == {i \in 1..Len(s) : Test(s[i])}
    IN IF I = {} THEN 0 ELSE CHOOSE i \in I : \A j \in I : i <= j

RemoveAt(s, i) == SubSeq(s, 1, i - 1) \o SubSeq(s, i + 1, Len(s))

----------------------------------------------------------------------------
(* shared/src/index.ts: tables *)

Characters == {"dwarf", "elf", "bandit", "wizard"}

CHARACTER_STATS ==
    [dwarf  |-> [hp |-> 28, maxHp |-> 28, attack |-> 6, defense |-> 3,
                 rangedDamage |-> 3, rangedRange |-> 2],
     bandit |-> [hp |-> 24, maxHp |-> 24, attack |-> 4, defense |-> 4,
                 rangedDamage |-> 6, rangedRange |-> 3],
     elf    |-> [hp |-> 22, maxHp |-> 22, attack |-> 5, defense |-> 3,
                 rangedDamage |-> 6, rangedRange |-> 3],
     wizard |-> [hp |-> 20, maxHp |-> 20, attack |-> 4, defense |-> 2,
                 rangedDamage |-> 7, rangedRange |-> 4]]

ENEMY_STATS ==
    [rat      |-> [hp |-> 6,  attack |-> 4,  defense |-> 0, xpReward |-> 8],
     skeleton |-> [hp |-> 15, attack |-> 8,  defense |-> 2, xpReward |-> 30],
     orc      |-> [hp |-> 25, attack |-> 13, defense |-> 4, xpReward |-> 60],
     dragon   |-> [hp |-> 45, attack |-> 20, defense |-> 8, xpReward |-> 200]]

\* multipliers in tenths: Math.floor(base * 1.5) = (base * 15) \div 10
VARIANT_MULTIPLIERS ==
    [normal   |-> [hpMult |-> 10, attackMult |-> 10, defenseMult |-> 10, xpMult |-> 10],
     elite    |-> [hpMult |-> 15, attackMult |-> 15, defenseMult |-> 12, xpMult |-> 25],
     champion |-> [hpMult |-> 25, attackMult |-> 18, defenseMult |-> 15, xpMult |-> 40]]

EnemyTypeOrder == <<"rat", "skeleton", "orc", "dragon">>

Eq(id, slot, a, d, h, rd, rr, tier) ==
    [id |-> id, slot |-> slot, attackBonus |-> a, defenseBonus |-> d, hpBonus |-> h,
     rangedDamageBonus |-> rd, rangedRangeBonus |-> rr, tier |-> tier]

EQUIPMENT_DEFINITIONS ==
    << Eq("rusty_sword", "weapon", 2, 0, 0, 0, 0, 1),
       Eq("iron_sword", "weapon", 4, 0, 0, 0, 0, 3),
       Eq("steel_sword", "weapon", 7, 0, 0, 0, 0, 6),
       Eq("wooden_shield", "shield", 0, 2, 0, 0, 0, 1),
       Eq("iron_shield", "shield", 0, 4, 0, 0, 0, 4),
       Eq("leather_armor", "armor", 0, 1, 10, 0, 0, 1),
       Eq("chain_mail", "armor", 0, 3, 15, 0, 0, 3),
       Eq("plate_armor", "armor", 0, 5, 25, 0, 0, 6),
       Eq("throwing_daggers", "ranged", 0, 0, 0, 2, 0, 1),
       Eq("magic_daggers", "ranged", 0, 0, 0, 4, 1, 4),
       Eq("crossbow", "ranged", 0, 0, 0, 2, 0, 1),
       Eq("large_crossbow", "ranged", 0, 0, 0, 4, 1, 4),
       Eq("crystal_staff", "ranged", 0, 0, 0, 2, 0, 1),
       Eq("flame_staff", "ranged", 0, 0, 0, 5, 1, 5) >>

\* e.id.includes('staff' | 'crossbow' | 'dagger'), per catalogue id
RangedFamily ==
    [throwing_daggers |-> "dagger", magic_daggers |-> "dagger",
     crossbow |-> "crossbow", large_crossbow |-> "crossbow",
     crystal_staff |-> "staff", flame_staff |-> "staff"]

getEquipmentForFloor(floor) ==
    SelectSeq(EQUIPMENT_DEFINITIONS, LAMBDA e : e.tier <= floor + 1)

getXpToNextLevel(level) == level * 50

getEnemyXpReward(enemy) ==
    (ENEMY_STATS[enemy.type].xpReward * VARIANT_MULTIPLIERS[enemy.variant].xpMult) \div 10

\* getEnemyVariant: the variants some roll in [0,1) can give on this floor
PossibleVariants(floor) ==
    LET eliteChance == Min(10 + floor * 5, 40)
        championChance == Min(Max(0, (floor - 1) * 4), 20)
    IN  (IF championChance > 0 THEN {"champion"} ELSE {})
        \cup (IF eliteChance > 0 THEN {"elite"} ELSE {})
        \cup (IF championChance + eliteChance < 100 THEN {"normal"} ELSE {})

\* getEnemyBehavior: the behaviours some roll can give to this type
PossibleBehaviors(type) ==
    CASE type = "rat" -> {"flee"}
      [] type = "dragon" -> {"aggressive"}
      [] OTHER -> {"aggressive", "patrol"}

createEnemy(id, type, x, y, variant, behavior) ==
    LET mult == VARIANT_MULTIPLIERS[variant]
        base == ENEMY_STATS[type]
    IN  [id |-> id, type |-> type, variant |-> variant, x |-> x, y |-> y,
         hp |-> (base.hp * mult.hpMult) \div 10,
         maxHp |-> (base.hp * mult.hpMult) \div 10,
         attack |-> (base.attack * mult.attackMult) \div 10,
         defense |-> (base.defense * mult.defenseMult) \div 10,
         behavior |-> behavior,
         lastSeenPlayer |-> NoCell]

EquipmentById(id) ==
    LET i == CHOOSE k \in 1..Len(EQUIPMENT_DEFINITIONS) : EQUIPMENT_DEFINITIONS[k].id = id
    IN EQUIPMENT_DEFINITIONS[i]

----------------------------------------------------------------------------
(* mapGenerator.ts *)

Room(x, y, w, h) == [x |-> x, y |-> y, width |-> w, height |-> h]

RoomCells(r) ==
    {<<x, y>> : x \in r.x..(r.x + r.width - 1), y \in r.y..(r.y + r.height - 1)}

\* Math.floor(room.x + room.width / 2), Math.floor(room.y + room.height / 2)
RoomCenter(r) == <<r.x + (r.width \div 2), r.y + (r.height \div 2)>>

\* the comparator's key cx + 0.5 * cy with cx = x + w/2, cy = y + h/2, times 4
RoomSortKey(r) == 4 * r.x + 2 * r.width + 2 * r.y + r.height

RECURSIVE InsertRoom(_, _)
InsertRoom(sorted, r) ==
    \* stable: r goes after every room whose key is not larger
    IF sorted = <<>> THEN <<r>>
    ELSE IF RoomSortKey(Head(sorted)) <= RoomSortKey(r)
         THEN <<Head(sorted)>> \o InsertRoom(Tail(sorted), r)
         ELSE <<r>> \o sorted

RECURSIVE SortRooms(_)
SortRooms(rooms) ==
    IF rooms = <<>> THEN <<>>
    ELSE InsertRoom(SortRooms(SubSeq(rooms, 1, Len(rooms) - 1)), rooms[Len(rooms)])

\* a generator whose corridors carve nothing
carveCorridorNone(a, b) == {}

carveCorridor(a, b) ==
    \* horizontal span at a's y, then vertical span at b's x
    {<<x, a[2]>> : x \in Min(a[1], b[1])..Max(a[1], b[1])}
    \cup {<<b[1], y>> : y \in Min(a[2], b[2])..Max(a[2], b[2])}

TileAt(map, c) ==
    IF c = map.stairs THEN "stairs" ELSE IF c \in map.open THEN "floor" ELSE "wall"

InBounds(map, c) ==
    c[1] >= 0 /\ c[1] < map.width /\ c[2] >= 0 /\ c[2] < map.height

numEnemiesFor(floor, roll) == roll + (floor \div 2)

availableTypes(floor) ==
    {EnemyTypeOrder[i] : i \in 1..Min(1 + (floor \div 3), 4)}

availableEquipment(floor, character) ==
    SelectSeq(getEquipmentForFloor(floor),
              LAMBDA e : \/ e.slot # "ranged"
                         \/ RangedFamily[e.id] =
                              (CASE character = "wizard" -> "staff"
                                 [] character = "bandit" -> "crossbow"
                                 [] OTHER -> "dagger"))

\* What the random calls of the seeding loops may return, given the sorted rooms.
ValidEnemyDraw(rooms, floor, d) ==
    /\ d.room \in 2..Len(rooms)                  \* randomInt(1, rooms.length - 1), 0-based
    /\ <<d.x, d.y>> \in RoomCells(rooms[d.room])
    /\ d.type \in availableTypes(floor)
    /\ d.variant \in PossibleVariants(floor)
    /\ d.behavior \in PossibleBehaviors(d.type)

ValidItemDraw(rooms, floor, character, d) ==
    /\ d.room \in 1..Len(rooms)
    /\ <<d.x, d.y>> \in RoomCells(rooms[d.room])
    /\ \/ d.equipment = None
       \/ \E i \in 1..Len(availableEquipment(floor, character)) :
              availableEquipment(floor, character)[i].id = d.equipment

ValidDraws(rooms, floor, character, dr) ==
    /\ \E roll \in 3..5 : Len(dr.enemies) = numEnemiesFor(floor, roll)
    /\ \A i \in 1..Len(dr.enemies) : ValidEnemyDraw(SortRooms(rooms), floor, dr.enemies[i])
    /\ Len(dr.potions) \in 1..3
    /\ \A i \in 1..Len(dr.potions) :
          /\ ValidItemDraw(SortRooms(rooms), floor, character, dr.potions[i])
          /\ dr.potions[i].equipment = None
    /\ Len(dr.equipment) \in 1..2
    /\ \A i \in 1..Len(dr.equipment) :
          /\ ValidItemDraw(SortRooms(rooms), floor, character, dr.equipment[i])
          /\ dr.equipment[i].equipment # None

EnemyId(floor, i) == floor * 100 + i
ItemId(floor, i) == floor * 100 + 50 + i

generateMap(floor, character, accepted, dr) ==
    LET rooms == SortRooms(accepted)
        n == Len(rooms)
        roomCells == UNION {RoomCells(rooms[i]) : i \in 1..n}
        chain == UNION {carveCorridor(RoomCenter(rooms[i - 1]), RoomCenter(rooms[i])) :
                          i \in 2..n}
        direct == IF n >= 2
                  THEN carveCorridor(RoomCenter(rooms[1]), RoomCenter(rooms[n]))
                  ELSE {}
        enemies == IF n > 1
                   THEN [i \in 1..Len(dr.enemies) |->
                           createEnemy(EnemyId(floor, i), dr.enemies[i].type,
                                       dr.enemies[i].x, dr.enemies[i].y,
                                       dr.enemies[i].variant, dr.enemies[i].behavior)]
                   ELSE <<>>
        potions == [i \in 1..Len(dr.potions) |->
                      [id |-> ItemId(floor, i), type |-> "health_potion",
                       x |-> dr.potions[i].x, y |-> dr.potions[i].y,
                       value |-> POTION_VALUE, equipment |-> None]]
        equipment == [i \in 1..Len(dr.equipment) |->
                        [id |-> ItemId(floor, Len(dr.potions) + i), type |-> "equipment",
                         x |-> dr.equipment[i].x, y |-> dr.equipment[i].y,
                         value |-> 0, equipment |-> dr.equipment[i].equipment]]
    IN  [map |-> [width |-> MAP_WIDTH, height |-> MAP_HEIGHT,
                  open |-> roomCells \cup chain \cup direct,
                  stairs |-> RoomCenter(rooms[n])],
         playerStart |-> RoomCenter(rooms[1]),
         enemies |-> enemies,
         items |-> potions \o equipment]

initializeFog == {}

----------------------------------------------------------------------------
(* gameLogic.ts: visibility *)

PlayerCell(g) == <<g.player.x, g.player.y>>
EnemyCell(e) == <<e.x, e.y>>
ItemCell(i) == <<i.x, i.y>>

\* fault model for C2: the enemy filter of getVisibleState without its fog test
getVisibleEnemiesNoFog(g) == SelectSeq(g.enemies, LAMBDA e : e.hp > 0)

getVisibleEnemies(g) ==
    SelectSeq(g.enemies, LAMBDA e : e.hp > 0 /\ EnemyCell(e) \in g.fog)

getVisibleItems(g) ==
    SelectSeq(g.items, LAMBDA i : ItemCell(i) \in g.fog)

\* the tiles of the revealed cells, each as <<x, y, type>>
getVisibleTiles(g) ==
    {<<c[1], c[2], TileAt(g.map, c)>> : c \in g.fog}

getVisibleState(g) ==
    [floor |-> g.floor, player |-> g.player, visibleTiles |-> getVisibleTiles(g),
     visibleEnemies |-> getVisibleEnemies(g), visibleItems |-> getVisibleItems(g),
     fog |-> g.fog, status |-> g.status, score |-> g.score]

\* a fog update that keeps only the cells in sight
updateFogForgetful(g) ==
    [g EXCEPT !.fog =
        {c \in {<<g.player.x + dx, g.player.y + dy>> :
                  dx \in (-VISION_RADIUS)..VISION_RADIUS,
                  dy \in (-VISION_RADIUS)..VISION_RADIUS} :
           /\ InBounds(g.map, c)
           /\ (c[1] - g.player.x) * (c[1] - g.player.x)
                + (c[2] - g.player.y) * (c[2] - g.player.y)
                <= VISION_RADIUS * VISION_RADIUS}]

updateFog(g) ==
    LET px == g.player.x
        py == g.player.y
        lit == {<<px + dx, py + dy>> :
                  dx \in (-VISION_RADIUS)..VISION_RADIUS,
                  dy \in (-VISION_RADIUS)..VISION_RADIUS}
    IN  [g EXCEPT !.fog = g.fog \cup
            {c \in lit : /\ InBounds(g.map, c)
                         /\ (c[1] - px) * (c[1] - px) + (c[2] - py) * (c[2] - py)
                              <= VISION_RADIUS * VISION_RADIUS}]

----------------------------------------------------------------------------
(* gameLogic.ts: line of sight and pathfinding *)

RECURSIVE LosWalk(_, _, _, _, _, _, _)
LosWalk(map, from, to, x, y, err, i) ==
    LET dx == Abs(to[1] - from[1])
        dy == Abs(to[2] - from[2])
        sx == IF from[1] < to[1] THEN 1 ELSE -1
        sy == IF from[2] < to[2] THEN 1 ELSE -1
        e2 == 2 * err
        stepX == e2 > -dy
        stepY == e2 < dx
        nx == IF stepX THEN x + sx ELSE x
        ny == IF stepY THEN y + sy ELSE y
        nerr == err - (IF stepX THEN dy ELSE 0) + (IF stepY THEN dx ELSE 0)
    IN  IF i >= MAP_WIDTH + MAP_HEIGHT THEN FALSE          \* max iterations exceeded
        ELSE IF <<x, y>> # from /\ <<x, y>> = to THEN TRUE
        ELSE IF <<x, y>> # from /\ InBounds(map, <<x, y>>)
                /\ TileAt(map, <<x, y>>) = "wall" THEN FALSE
        ELSE IF <<x, y>> = to THEN TRUE
        ELSE IF nx = x /\ ny = y THEN FALSE                \* deadlock guard
        ELSE LosWalk(map, from, to, nx, ny, nerr, i + 1)

hasLineOfSight(g, x1, y1, x2, y2) ==
    IF x1 = x2 /\ y1 = y2 THEN TRUE
    ELSE LosWalk(g.map, <<x1, y1>>, <<x2, y2>>, x1, y1,
                 Abs(x2 - x1) - Abs(y2 - y1), 0)

Directions4 == << <<0, -1>>, <<0, 1>>, <<-1, 0>>, <<1, 0>> >>   \* up, down, left, right

LiveEnemyAt(g, c) == \E i \in 1..Len(g.enemies) :
                        EnemyCell(g.enemies[i]) = c /\ g.enemies[i].hp > 0

\* an expansion that queues every cell that is not a wall, occupied or not
RECURSIVE BfsExpandThroughEnemies(_, _, _, _, _, _)
BfsExpandThroughEnemies(g, current, target, d, queue, visited) ==
    IF d > 4 THEN [found |-> FALSE, step |-> NoCell, queue |-> queue, visited |-> visited]
    ELSE
      LET n == <<current.x + Directions4[d][1], current.y + Directions4[d][2]>>
          newPath == Append(current.path, n)
      IN  IF n \in visited
          THEN BfsExpandThroughEnemies(g, current, target, d + 1, queue, visited)
          ELSE IF ~InBounds(g.map, n) \/ TileAt(g.map, n) = "wall"
               THEN BfsExpandThroughEnemies(g, current, target, d + 1, queue,
                                            visited \cup {n})
          ELSE IF n = target
               THEN [found |-> TRUE, step |-> newPath[1], queue |-> queue,
                     visited |-> visited \cup {n}]
          ELSE BfsExpandThroughEnemies(g, current, target, d + 1,
                                       Append(queue, [x |-> n[1], y |-> n[2],
                                                      path |-> newPath]),
                                       visited \cup {n})

\* The for-loop over the four directions of one dequeued node, from direction d on.
\* Result: [found, step, queue, visited].
RECURSIVE BfsExpand(_, _, _, _, _, _)
BfsExpand(g, current, target, d, queue, visited) ==
    IF d > 4 THEN [found |-> FALSE, step |-> NoCell, queue |-> queue, visited |-> visited]
    ELSE
      LET n == <<current.x + Directions4[d][1], current.y + Directions4[d][2]>>
          newPath == Append(current.path, n)
      IN  IF n \in visited THEN BfsExpand(g, current, target, d + 1, queue, visited)
          ELSE IF ~InBounds(g.map, n) \/ TileAt(g.map, n) = "wall"
               THEN BfsExpand(g, current, target, d + 1, queue, visited \cup {n})
          ELSE IF n = target
               THEN [found |-> TRUE, step |-> newPath[1], queue |-> queue,
                     visited |-> visited \cup {n}]
          ELSE IF ~LiveEnemyAt(g, n) /\ n # PlayerCell(g)
               THEN BfsExpand(g, current, target, d + 1,
                              Append(queue, [x |-> n[1], y |-> n[2], path |-> newPath]),
                              visited \cup {n})
          ELSE BfsExpand(g, current, target, d + 1, queue, visited \cup {n})

\* The while-loop over the nodes of one BFS depth: level holds the queued nodes of
\* that depth in queue order, next the nodes queued behind them so far.
\* Result: [found, step, stopped (iteration limit), next, visited, iterations].
BfsResult(found, step, stopped, next, visited, iterations) ==
    [found |-> found, step |-> step, stopped |-> stopped, next |-> next,
     visited |-> visited, iterations |-> iterations]

RECURSIVE BfsLevel(_, _, _, _, _, _, _, _)
\* after the four directions of node level[i] have been tried with result r
BfsLevelNext(g, target, maxDistance, level, i, iterations, r) ==
    IF r.found
    THEN BfsResult(TRUE, r.step, FALSE, r.queue, r.visited, iterations + 1)
    ELSE BfsLevel(g, target, maxDistance, level, i + 1, r.queue, r.visited, iterations + 1)

BfsLevel(g, target, maxDistance, level, i, next, visited, iterations) ==
    IF i > Len(level)
    THEN BfsResult(FALSE, NoCell, FALSE, next, visited, iterations)
    ELSE IF iterations + 1 > MAP_WIDTH * MAP_HEIGHT
    THEN BfsResult(FALSE, NoCell, TRUE, next, visited, iterations + 1)
    ELSE IF Len(level[i].path) >= maxDistance
    THEN BfsLevel(g, target, maxDistance, level, i + 1, next, visited, iterations + 1)
    ELSE BfsLevelNext(g, target, maxDistance, level, i, iterations,
                      BfsExpand(g, level[i], target, 1, next, visited))

\* the queue is always the rest of one depth followed by the nodes of the next
RECURSIVE BfsLoop(_, _, _, _, _, _)
BfsLoopNext(g, target, maxDistance, r) ==
    IF r.found THEN r.step
    ELSE IF r.stopped THEN NoCell
    ELSE BfsLoop(g, target, maxDistance, r.next, r.visited, r.iterations)

BfsLoop(g, target, maxDistance, queue, visited, iterations) ==
    IF queue = <<>> THEN NoCell
    ELSE BfsLoopNext(g, target, maxDistance,
                     BfsLevel(g, target, maxDistance, queue, 1, <<>>, visited, iterations))

\* the value of iterations when findPathToTarget returns
RECURSIVE BfsIterations(_, _, _, _, _, _)
BfsIterationsNext(g, target, maxDistance, r) ==
    IF r.found \/ r.stopped THEN r.iterations
    ELSE BfsIterations(g, target, maxDistance, r.next, r.visited, r.iterations)

BfsIterations(g, target, maxDistance, queue, visited, iterations) ==
    IF queue = <<>> THEN iterations
    ELSE BfsIterationsNext(g, target, maxDistance,
                           BfsLevel(g, target, maxDistance, queue, 1, <<>>, visited,
                                    iterations))

\* a pathfinder that never finds a step
findPathToTargetNone(g, startX, startY, targetX, targetY, maxDistance) == NoCell

\* the next step towards the target, NoCell for null
findPathToTarget(g, startX, startY, targetX, targetY, maxDistance) ==
    IF startX = targetX /\ startY = targetY THEN NoCell
    ELSE BfsLoop(g, <<targetX, targetY>>, maxDistance,
                 << [x |-> startX, y |-> startY, path |-> <<>>] >>,
                 {<<startX, startY>>}, 0)

\* a test that lets an enemy onto any cell no one stands on, wall or not
canMoveToTileAnywhere(g, idx, x, y) ==
    /\ <<x, y>> # PlayerCell(g)
    /\ \A j \in 1..Len(g.enemies) :
          (j # idx /\ g.enemies[j].hp > 0) => EnemyCell(g.enemies[j]) # <<x, y>>

\* enemy is g.enemies[idx]; the other enemies are those at other indices
canMoveToTile(g, idx, x, y) ==
    /\ InBounds(g.map, <<x, y>>)
    /\ TileAt(g.map, <<x, y>>) # "wall"
    /\ <<x, y>> # PlayerCell(g)
    /\ ~\E j \in 1..Len(g.enemies) :
           j # idx /\ EnemyCell(g.enemies[j]) = <<x, y>> /\ g.enemies[j].hp > 0

isAdjacentToPlayer(enemy, px, py) ==
    LET dx == Abs(px - enemy.x)
        dy == Abs(py - enemy.y)
    IN (dx = 1 /\ dy = 0) \/ (dx = 0 /\ dy = 1)

----------------------------------------------------------------------------
(* gameLogic.ts: combat and progression *)

getEnemyScore(type) ==
    CASE type = "rat" -> 10
      [] type = "skeleton" -> 25
      [] type = "orc" -> 50
      [] type = "dragon" -> 200
      [] OTHER -> 10

\* the while loop of grantXp; result [g, events]
\* a level-up test that runs once instead of looping
LevelUpOnce(g, events) ==
    IF g.player.xp >= g.player.xpToNextLevel
    THEN [g |-> [g EXCEPT !.player.xp = g.player.xp - g.player.xpToNextLevel,
                          !.player.level = g.player.level + 1,
                          !.player.xpToNextLevel = getXpToNextLevel(g.player.level + 1)],
          events |-> Append(events, [type |-> "level_up", newLevel |-> g.player.level + 1])]
    ELSE [g |-> g, events |-> events]

RECURSIVE LevelUpLoop(_, _)
LevelUpLoop(g, events) ==
    IF g.player.xp >= g.player.xpToNextLevel
    THEN LET p == g.player
             maxHp == p.maxHp + LEVEL_HP_GAIN
             healAmount == maxHp \div 2
             p2 == [p EXCEPT !.xp = p.xp - p.xpToNextLevel,
                             !.level = p.level + 1,
                             !.maxHp = maxHp,
                             !.hp = Min(maxHp, p.hp + healAmount),
                             !.attack = p.attack + 1,
                             !.defense = p.defense + 1,
                             !.xpToNextLevel = getXpToNextLevel(p.level + 1)]
         IN  LevelUpLoop([g EXCEPT !.player = p2],
                         Append(events, [type |-> "level_up", newLevel |-> p.level + 1]))
    ELSE [g |-> g, events |-> events]

grantXp(g, enemy) ==
    LET xpReward == getEnemyXpReward(enemy)
        g1 == [g EXCEPT !.player.xp = g.player.xp + xpReward]
    IN  LevelUpLoop(g1, << [type |-> "xp_gained", amount |-> xpReward,
                            totalXp |-> g1.player.xp] >>)

\* score, enemy_killed and XP once an attack has brought g.enemies[idx] to hp <= 0
KillEffects(g, idx, events) ==
    LET enemy == g.enemies[idx]
    IN  IF enemy.hp <= 0
        THEN LET g1 == [g EXCEPT !.score = g.score + getEnemyScore(enemy.type)]
                 x == grantXp(g1, enemy)
             IN  [g |-> x.g,
                  events |-> events \o << [type |-> "enemy_killed", enemyId |-> enemy.id,
                                           enemyType |-> enemy.type] >> \o x.events]
        ELSE [g |-> g, events |-> events]

attackEnemy(g, idx) ==
    LET enemy == g.enemies[idx]
        damage == Max(1, g.player.attack - enemy.defense)
        g1 == [g EXCEPT !.enemies[idx].hp = enemy.hp - damage]
    IN  KillEffects(g1, idx, << [type |-> "player_attacked", targetX |-> enemy.x,
                                 targetY |-> enemy.y, damage |-> damage,
                                 enemyId |-> enemy.id] >>)

getEquipmentTotalBonus(id) ==
    LET e == EquipmentById(id)
    IN e.attackBonus + e.defenseBonus + e.hpBonus + e.rangedDamageBonus + e.rangedRangeBonus

\* a pickup that adds the new bonuses without taking the old ones off
handleEquipmentPickupStacking(g, itemIndex) ==
    LET item == g.items[itemIndex]
        equipment == EquipmentById(item.equipment)
        slot == equipment.slot
        current == g.player.equipment[slot]
        currentBonus == IF current # None THEN getEquipmentTotalBonus(current) ELSE 0
        p == g.player
    IN  IF getEquipmentTotalBonus(item.equipment) > currentBonus \/ current = None
        THEN [g |-> [g EXCEPT !.items = RemoveAt(g.items, itemIndex),
                              !.player = [p EXCEPT !.equipment[slot] = item.equipment,
                                                   !.attack = @ + equipment.attackBonus,
                                                   !.defense = @ + equipment.defenseBonus,
                                                   !.maxHp = @ + equipment.hpBonus]],
              events |-> << [type |-> "equipment_equipped", itemId |-> item.id,
                             equipment |-> item.equipment, slot |-> slot] >>]
        ELSE [g |-> g,
              events |-> << [type |-> "equipment_found", equipment |-> item.equipment,
                             notBetter |-> TRUE] >>]

handleEquipmentPickup(g, itemIndex) ==
    LET item == g.items[itemIndex]
        equipment == EquipmentById(item.equipment)
        slot == equipment.slot
        current == g.player.equipment[slot]
        currentBonus == IF current # None THEN getEquipmentTotalBonus(current) ELSE 0
        isBetter == getEquipmentTotalBonus(item.equipment) > currentBonus
    IN  IF isBetter \/ current = None
        THEN LET p == g.player
                 old == IF current # None THEN EquipmentById(current)
                        ELSE [attackBonus |-> 0, defenseBonus |-> 0, hpBonus |-> 0]
                 maxHp == p.maxHp - old.hpBonus + equipment.hpBonus
                 p2 == [p EXCEPT !.equipment[slot] = item.equipment,
                                 !.attack = p.attack - old.attackBonus + equipment.attackBonus,
                                 !.defense = p.defense - old.defenseBonus
                                               + equipment.defenseBonus,
                                 !.maxHp = maxHp,
                                 !.hp = IF p.hp > maxHp THEN maxHp ELSE p.hp]
             IN  [g |-> [g EXCEPT !.items = RemoveAt(g.items, itemIndex), !.player = p2],
                  events |-> << [type |-> "equipment_equipped", itemId |-> item.id,
                                 equipment |-> item.equipment, slot |-> slot] >>]
        ELSE [g |-> g,
              events |-> << [type |-> "equipment_found", equipment |-> item.equipment,
                             notBetter |-> TRUE] >>]

\* an enemy attack that never ends the game
enemyAttackPlayerNoDeath(g, enemy) ==
    [g |-> [g EXCEPT !.player.hp = g.player.hp - Max(1, enemy.attack - g.player.defense)],
     events |-> << [type |-> "player_damaged"] >>]

enemyAttackPlayer(g, enemy) ==
    LET damage == Max(1, enemy.attack - g.player.defense)
        hp == g.player.hp - damage
    IN  IF hp <= 0
        THEN [g |-> [g EXCEPT !.player.hp = hp, !.status = "dead"],
              events |-> << [type |-> "player_damaged"],
                            [type |-> "player_died", killedBy |-> enemy.type] >>]
        ELSE [g |-> [g EXCEPT !.player.hp = hp],
              events |-> << [type |-> "player_damaged"] >>]

----------------------------------------------------------------------------
(* gameLogic.ts: enemy AI.  Each step returns                               *)
(*   [g, events, count (pathfinder calls so far), log, stop]                *)
(* where log lists the enemy actions in the order the loop performs them    *)
(* (killed: the action left the player dead) and stop is the early          *)
(* "return events" taken when the player has died.                          *)

AiRes(g, events, count, log, stop) ==
    [g |-> g, events |-> events, count |-> count, log |-> log, stop |-> stop]

AiAttack(g, idx, count, log) ==
    LET a == enemyAttackPlayer(g, g.enemies[idx])
    IN  AiRes(a.g, a.events, count,
              Append(log, [id |-> g.enemies[idx].id, act |-> "attack",
                           killed |-> a.g.status = "dead"]),
              a.g.status = "dead")

AiMoveTo(g, idx, c) == [g EXCEPT !.enemies[idx].x = c[1], !.enemies[idx].y = c[2]]

MoveLog(g, idx) == << [id |-> g.enemies[idx].id, act |-> "move", killed |-> FALSE] >>

\* flee branch: one cell away from the player, horizontal first
AiFlee(g, idx, px, py, count) ==
    LET enemy == g.enemies[idx]
        fleeX == enemy.x + (IF enemy.x > px THEN 1 ELSE -1)
        fleeY == enemy.y + (IF enemy.y > py THEN 1 ELSE -1)
    IN  IF canMoveToTile(g, idx, fleeX, enemy.y)
        THEN AiRes(AiMoveTo(g, idx, <<fleeX, enemy.y>>), <<>>, count, MoveLog(g, idx), FALSE)
        ELSE IF canMoveToTile(g, idx, enemy.x, fleeY)
        THEN AiRes(AiMoveTo(g, idx, <<enemy.x, fleeY>>), <<>>, count, MoveLog(g, idx), FALSE)
        ELSE AiRes(g, <<>>, count, <<>>, FALSE)

\* the enemy has stepped (g is the state after the step): attack if now adjacent
AiStepped(g, idx, px, py, count, log) ==
    IF isAdjacentToPlayer(g.enemies[idx], px, py)
    THEN AiAttack(g, idx, count, log)
    ELSE AiRes(g, <<>>, count, log, FALSE)

\* aggressive branch after the pathfinder has answered step (NoCell for null)
AiChase(g, idx, px, py, canSee, count, step) ==
    IF step # NoCell
    THEN IF step = <<px, py>>
         THEN AiAttack(g, idx, count, <<>>)
         ELSE IF canMoveToTile(g, idx, step[1], step[2])
         THEN AiStepped(AiMoveTo(g, idx, step), idx, px, py, count, MoveLog(g, idx))
         ELSE AiRes(g, <<>>, count, <<>>, FALSE)
    ELSE IF ~canSee /\ g.enemies[idx].lastSeenPlayer # NoCell
            /\ EnemyCell(g.enemies[idx]) = g.enemies[idx].lastSeenPlayer
    THEN AiRes([g EXCEPT !.enemies[idx].lastSeenPlayer = NoCell], <<>>, count, <<>>, FALSE)
    ELSE AiRes(g, <<>>, count, <<>>, FALSE)

\* a pathfinder call that no budget limits
UnbudgetedStep(g, idx, target, count) ==
    findPathToTarget(g, g.enemies[idx].x, g.enemies[idx].y, target[1], target[2],
                     DEFAULT_MAX_DISTANCE)

\* the budgeted pathfinder call: NoCell once pathfindingCount has reached the limit
BudgetedStep(g, idx, target, count) ==
    IF count < MAX_PATHFINDING_ENEMIES
    THEN findPathToTarget(g, g.enemies[idx].x, g.enemies[idx].y, target[1], target[2],
                          DEFAULT_MAX_DISTANCE)
    ELSE NoCell

BudgetedCount(count) == IF count < MAX_PATHFINDING_ENEMIES THEN count + 1 ELSE count

\* aggressive branch (also taken by a flee enemy that is not fleeing)
AiAggressive(g, idx, px, py, canSee, count) ==
    IF ~canSee /\ g.enemies[idx].lastSeenPlayer = NoCell
    THEN AiRes(g, <<>>, count, <<>>, FALSE)
    ELSE IF isAdjacentToPlayer(g.enemies[idx], px, py)
    THEN AiAttack(g, idx, count, <<>>)
    ELSE AiChase(g, idx, px, py, canSee, BudgetedCount(count),
                 BudgetedStep(g, idx,
                              IF canSee THEN <<px, py>> ELSE g.enemies[idx].lastSeenPlayer,
                              count))

\* patrol branch after the pathfinder has answered
AiPatrolChase(g, idx, px, py, count, step) ==
    IF step # NoCell /\ canMoveToTile(g, idx, step[1], step[2])
    THEN AiStepped(AiMoveTo(g, idx, step), idx, px, py, count, MoveLog(g, idx))
    ELSE AiRes(g, <<>>, count, <<>>, FALSE)

AiPatrol(g, idx, px, py, canSee, count) ==
    IF ~canSee THEN AiRes(g, <<>>, count, <<>>, FALSE)
    ELSE IF isAdjacentToPlayer(g.enemies[idx], px, py)
    THEN AiAttack(g, idx, count, <<>>)
    ELSE AiPatrolChase(g, idx, px, py, BudgetedCount(count),
                       BudgetedStep(g, idx, <<px, py>>, count))

AiStationary(g, idx, px, py, count) ==
    IF isAdjacentToPlayer(g.enemies[idx], px, py)
    THEN AiAttack(g, idx, count, <<>>)
    ELSE AiRes(g, <<>>, count, <<>>, FALSE)

\* the switch on enemy.behavior, lastSeenPlayer already updated
EnemyBehave(g, idx, px, py, canSee, count) ==
    CASE g.enemies[idx].behavior \in {"flee", "aggressive"} ->
           IF g.enemies[idx].behavior = "flee"
              /\ 10 * g.enemies[idx].hp < 3 * g.enemies[idx].maxHp /\ canSee
           THEN AiFlee(g, idx, px, py, count)
           ELSE AiAggressive(g, idx, px, py, canSee, count)
      [] g.enemies[idx].behavior = "patrol" -> AiPatrol(g, idx, px, py, canSee, count)
      [] g.enemies[idx].behavior = "stationary" -> AiStationary(g, idx, px, py, count)
      [] OTHER -> AiRes(g, <<>>, count, <<>>, FALSE)

\* an enemy in detection range, canSee being its line of sight to the player
EnemySees(g, idx, px, py, count, canSee) ==
    EnemyBehave(IF canSee THEN [g EXCEPT !.enemies[idx].lastSeenPlayer = <<px, py>>] ELSE g,
                idx, px, py, canSee, count)

\* the body of the for-loop of moveEnemies for one enemy
EnemyTurn(g, idx, dist, px, py, count) ==
    IF dist > VISION_RADIUS + 2 THEN AiRes(g, <<>>, count, <<>>, FALSE)
    ELSE EnemySees(g, idx, px, py, count,
                   hasLineOfSight(g, g.enemies[idx].x, g.enemies[idx].y, px, py))

ManhattanToPlayer(g, idx) ==
    Abs(g.enemies[idx].x - g.player.x) + Abs(g.enemies[idx].y - g.player.y)

\* stable insertion of index i into a list of indices sorted by ascending distance
RECURSIVE InsertByDist(_, _, _)
InsertByDist(g, sorted, i) ==
    IF sorted = <<>> THEN <<i>>
    ELSE IF ManhattanToPlayer(g, Head(sorted)) <= ManhattanToPlayer(g, i)
         THEN <<Head(sorted)>> \o InsertByDist(g, Tail(sorted), i)
         ELSE <<i>> \o sorted

\* indices of the live enemies of g.enemies[1..n], sorted by distance (stable)
RECURSIVE activeEnemies(_, _)
activeEnemies(g, n) ==
    IF n = 0 THEN <<>>
    ELSE IF g.enemies[n].hp > 0
         THEN InsertByDist(g, activeEnemies(g, n - 1), n)
         ELSE activeEnemies(g, n - 1)

\* the loop's accumulated result extended by one enemy's turn
\* fault model for C8: the enemy loop without its return on the player's death
AiMergeNoStop(acc, r) ==
    AiRes(r.g, acc.events \o r.events, r.count, acc.log \o r.log, FALSE)

AiMerge(acc, r) ==
    AiRes(r.g, acc.events \o r.events, r.count, acc.log \o r.log, r.stop)

RECURSIVE MoveEnemiesLoop(_, _, _, _, _)
MoveEnemiesLoop(g0, order, k, acc, distOf) ==
    IF k > Len(order) \/ acc.stop THEN acc
    ELSE MoveEnemiesLoop(g0, order, k + 1,
                         AiMerge(acc, EnemyTurn(acc.g, order[k], distOf[order[k]],
                                                g0.player.x, g0.player.y, acc.count)),
                         distOf)

\* result [g, events, count, log, stop]
moveEnemies(g) ==
    MoveEnemiesLoop(g, activeEnemies(g, Len(g.enemies)), 1,
                    AiRes(g, <<>>, 0, <<>>, FALSE),
                    [i \in 1..Len(g.enemies) |-> ManhattanToPlayer(g, i)])

----------------------------------------------------------------------------
(* gameLogic.ts: turn engine.  A turn returns [g, events, log].             *)

createNewGame(character, accepted, dr) ==
    LET gen == generateMap(1, character, accepted, dr)
        stats == CHARACTER_STATS[character]
    IN  updateFog(
          [floor |-> 1,
           player |-> [x |-> gen.playerStart[1], y |-> gen.playerStart[2],
                       hp |-> stats.hp, maxHp |-> stats.maxHp,
                       attack |-> stats.attack, defense |-> stats.defense,
                       xp |-> 0, level |-> 1, xpToNextLevel |-> getXpToNextLevel(1),
                       equipment |-> [weapon |-> None, shield |-> None,
                                      armor |-> None, ranged |-> None],
                       character |-> character, facingDirection |-> "left"],
           map |-> gen.map, enemies |-> gen.enemies, items |-> gen.items,
           fog |-> initializeFog, status |-> "active", score |-> 0])

\* the score of a descent, and the win on reaching the last floor
\* a descend without the win condition
FloorReachedNoWin(g) == [g EXCEPT !.score = g.score + DESCEND_SCORE]

FloorReached(g) ==
    IF g.floor >= WIN_FLOOR
    THEN [g EXCEPT !.score = g.score + DESCEND_SCORE + WIN_SCORE, !.status = "won"]
    ELSE [g EXCEPT !.score = g.score + DESCEND_SCORE]

\* descendStairs once the next floor gen has been generated
DescendTo(g, floor, gen) ==
    FloorReached(updateFog([g EXCEPT !.floor = floor, !.map = gen.map,
                                     !.player.x = gen.playerStart[1],
                                     !.player.y = gen.playerStart[2],
                                     !.enemies = gen.enemies, !.items = gen.items,
                                     !.fog = initializeFog]))

descendStairs(g, accepted, dr) ==
    IF g.status # "active" THEN [g |-> g, events |-> <<>>]
    ELSE IF TileAt(g.map, PlayerCell(g)) # "stairs" THEN [g |-> g, events |-> <<>>]
    ELSE [g |-> DescendTo(g, g.floor + 1,
                          generateMap(g.floor + 1, g.player.character, accepted, dr)),
          events |-> IF g.floor + 1 >= WIN_FLOOR
                     THEN << [type |-> "floor_descended"], [type |-> "game_won"] >>
                     ELSE << [type |-> "floor_descended"] >>]

\* the item branch of processMove, the player already standing on the item's cell
PickUpItem(g) ==
    LET itemIndex == FirstIdx(g.items, LAMBDA i : ItemCell(i) = PlayerCell(g))
        item == g.items[itemIndex]
    IN  IF itemIndex = 0 THEN [g |-> g, events |-> <<>>]
        ELSE IF item.type = "health_potion"
        THEN IF g.player.hp >= g.player.maxHp
             THEN [g |-> g, events |-> << [type |-> "potion_refused"] >>]
             ELSE LET healAmount == Min(item.value, g.player.maxHp - g.player.hp)
                  IN  [g |-> [g EXCEPT !.items = RemoveAt(g.items, itemIndex),
                                       !.player.hp = g.player.hp + healAmount],
                       events |-> << [type |-> "player_healed", itemId |-> item.id,
                                      healAmount |-> healAmount] >>]
        ELSE handleEquipmentPickup(g, itemIndex)

Facing(g, direction) ==
    IF direction \in {"left", "right"}
    THEN [g EXCEPT !.player.facingDirection = direction]
    ELSE g

\* the events of the turn so far followed by the enemy phase r
WithEnemyPhase(events, r) ==
    [g |-> r.g, events |-> events \o r.events, log |-> r.log]

\* fog update and enemy AI at the end of processMove
EndOfMove(g, events) ==
    IF g.status = "active"
    THEN WithEnemyPhase(events, moveEnemies(updateFog(g)))
    ELSE [g |-> updateFog(g), events |-> events, log |-> <<>>]

\* the player has bumped into an enemy: a is the result of attackEnemy
AfterBump(a) == EndOfMove(a.g, a.events)

\* a descend after which the enemies of the new floor take their turn
AfterDescendThenEnemies(events, d) ==
    IF d.g.status = "active"
    THEN WithEnemyPhase(events \o d.events, moveEnemies(d.g))
    ELSE [g |-> d.g, events |-> events \o d.events, log |-> <<>>]

\* the player stood on the stairs: d is the result of descendStairs
AfterDescend(events, d) == [g |-> d.g, events |-> events \o d.events, log |-> <<>>]

\* the player has stepped onto cell new: pick is the result of the item branch
AfterStep(g, new, pick, accepted, dr) ==
    IF TileAt(g.map, new) = "stairs"
    THEN AfterDescend(<< [type |-> "player_moved"] >> \o pick.events,
                      descendStairs(pick.g, accepted, dr))
    ELSE EndOfMove(pick.g, << [type |-> "player_moved"] >> \o pick.events)

MoveTarget(g, direction) ==
    << g.player.x + (IF direction = "left" THEN -1 ELSE IF direction = "right" THEN 1 ELSE 0),
       g.player.y + (IF direction = "up" THEN -1 ELSE IF direction = "down" THEN 1 ELSE 0) >>

enemyAtTarget(g, new) == FirstIdx(g.enemies, LAMBDA e : EnemyCell(e) = new /\ e.hp > 0)

\* a processMove in which a blocked move still costs the turn
processMoveBlockedCosts(g, direction, accepted, dr) ==
    IF g.status # "active" THEN [g |-> g, events |-> <<>>, log |-> <<>>]
    ELSE IF \/ ~InBounds(g.map, MoveTarget(g, direction))
            \/ TileAt(g.map, MoveTarget(g, direction)) = "wall"
    THEN EndOfMove(g, <<>>)
    ELSE IF enemyAtTarget(g, MoveTarget(g, direction)) # 0
    THEN AfterBump(attackEnemy(Facing(g, direction),
                               enemyAtTarget(g, MoveTarget(g, direction))))
    ELSE AfterStep(g, MoveTarget(g, direction),
                   PickUpItem(Facing([g EXCEPT !.player.x = MoveTarget(g, direction)[1],
                                               !.player.y = MoveTarget(g, direction)[2]],
                                     direction)),
                   accepted, dr)

processMove(g, direction, accepted, dr) ==
    IF g.status # "active" THEN [g |-> g, events |-> <<>>, log |-> <<>>]
    ELSE IF ~InBounds(g.map, MoveTarget(g, direction))
    THEN [g |-> g, events |-> <<>>, log |-> <<>>]
    ELSE IF TileAt(g.map, MoveTarget(g, direction)) = "wall"
    THEN [g |-> g, events |-> <<>>, log |-> <<>>]
    ELSE IF enemyAtTarget(g, MoveTarget(g, direction)) # 0
    THEN AfterBump(attackEnemy(Facing(g, direction),
                               enemyAtTarget(g, MoveTarget(g, direction))))
    ELSE AfterStep(g, MoveTarget(g, direction),
                   PickUpItem(Facing([g EXCEPT !.player.x = MoveTarget(g, direction)[1],
                                               !.player.y = MoveTarget(g, direction)[2]],
                                     direction)),
                   accepted, dr)

getAttackType(character) ==
    CASE character = "bandit" -> "bolt"
      [] character = "wizard" -> "spell"
      [] character = "elf" -> "magic_dagger"
      [] OTHER -> "dagger"

\* the scan loop of processAttack from step i on; result [enemy (index or 0), hitX, hitY]
RECURSIVE RangedScan(_, _, _, _, _, _)
RangedScan(g, dx, rangedRange, i, hitX, hitY) ==
    LET checkX == g.player.x + dx * i
        checkY == g.player.y
        enemy == FirstIdx(g.enemies, LAMBDA e : EnemyCell(e) = <<checkX, checkY>> /\ e.hp > 0)
    IN  IF i > rangedRange THEN [enemy |-> 0, hitX |-> hitX, hitY |-> hitY]
        ELSE IF checkX < 0 \/ checkX >= g.map.width
        THEN [enemy |-> 0, hitX |-> g.player.x + dx * (i - 1), hitY |-> hitY]
        ELSE IF TileAt(g.map, <<checkX, checkY>>) = "wall"
        THEN [enemy |-> 0, hitX |-> checkX, hitY |-> checkY]
        ELSE IF enemy # 0 THEN [enemy |-> enemy, hitX |-> checkX, hitY |-> checkY]
        ELSE RangedScan(g, dx, rangedRange, i + 1, checkX, checkY)

\* the shot of processAttack, hit being the result of the scan loop
Shoot(g, hit, rangedDamage, attackType) ==
    IF hit.enemy # 0
    THEN KillEffects([g EXCEPT !.enemies[hit.enemy].hp =
                                   g.enemies[hit.enemy].hp
                                   - Max(1, rangedDamage - g.enemies[hit.enemy].defense)],
                     hit.enemy,
                     << [type |-> "ranged_attack", targetX |-> hit.hitX,
                         targetY |-> hit.hitY,
                         damage |-> Max(1, rangedDamage - g.enemies[hit.enemy].defense),
                         enemyId |-> g.enemies[hit.enemy].id,
                         attackType |-> attackType] >>)
    ELSE [g |-> g,
          events |-> << [type |-> "ranged_missed", targetX |-> hit.hitX,
                         targetY |-> hit.hitY, damage |-> 0,
                         attackType |-> attackType] >>]

\* the enemy phase after the shot
AfterShot(shot) ==
    IF shot.g.status = "active"
    THEN WithEnemyPhase(shot.events, moveEnemies(shot.g))
    ELSE [g |-> shot.g, events |-> shot.events, log |-> <<>>]

RangedBonus(g, field) ==
    IF g.player.equipment.ranged # None
    THEN EquipmentById(g.player.equipment.ranged)[field]
    ELSE 0

processAttack(g) ==
    IF g.status # "active" THEN [g |-> g, events |-> <<>>, log |-> <<>>]
    ELSE AfterShot(
           Shoot(g,
                 RangedScan(g, IF g.player.facingDirection = "right" THEN 1 ELSE -1,
                            CHARACTER_STATS[g.player.character].rangedRange
                              + RangedBonus(g, "rangedRangeBonus"),
                            1, g.player.x, g.player.y),
                 CHARACTER_STATS[g.player.character].rangedDamage
                   + RangedBonus(g, "rangedDamageBonus"),
                 getAttackType(g.player.character)))

----------------------------------------------------------------------------
(* gameLogic.ts: delta engine *)

RECURSIVE Flatten(_)
Flatten(ss) == IF ss = <<>> THEN <<>> ELSE Head(ss) \o Flatten(Tail(ss))

StatFields == {"hp", "maxHp", "attack", "defense", "xp", "level", "xpToNextLevel"}

\* player_stats with only the changed fields
StatsDelta(pre, post) ==
    LET changed == {f \in StatFields : post.player[f] # pre.player[f]}
    IN  IF changed = {} THEN <<>>
        ELSE << [type |-> "player_stats", stats |-> [f \in changed |-> post.player[f]]] >>

ScoreDelta(pre, post) ==
    IF post.score # pre.score THEN << [type |-> "score", score |-> post.score] >> ELSE <<>>

StatusDelta(post) ==
    IF post.status # "active"
    THEN << [type |-> "game_status", status |-> post.status] >>
    ELSE <<>>

EventDeltas(events) == [i \in 1..Len(events) |-> [type |-> "event", event |-> events[i]]]

SeqIds(s) == {s[i].id : i \in 1..Len(s)}

PrevOf(pre, id) == pre.enemies[FirstIdx(pre.enemies, LAMBDA e : e.id = id)]

HasPrev(pre, id) == FirstIdx(pre.enemies, LAMBDA e : e.id = id) # 0

\* enemy deltas of a move turn: visible, then killed / hidden, then moved / damaged
MoveEnemyDeltas(pre, post) ==
    LET prevVisible == getVisibleEnemies(pre)
        prevIds == SeqIds(prevVisible)
        current == getVisibleEnemies(post)
        currentIds == SeqIds(current)
        appeared == [i \in 1..Len(current) |->
                       IF current[i].id \notin prevIds
                       THEN << [type |-> "enemy_visible", enemy |-> current[i]] >>
                       ELSE <<>>]
        gone == [i \in 1..Len(prevVisible) |->
                   LET id == prevVisible[i].id
                       k == FirstIdx(post.enemies, LAMBDA e : e.id = id)
                   IN  IF id \in currentIds THEN <<>>
                       ELSE IF k # 0 /\ post.enemies[k].hp <= 0
                       THEN << [type |-> "enemy_killed", enemyId |-> id] >>
                       ELSE << [type |-> "enemy_hidden", enemyId |-> id] >>]
        stayed == [i \in 1..Len(current) |->
                     LET e == current[i]
                     IN  IF e.id \in prevIds /\ HasPrev(pre, e.id)
                         THEN (IF e.x # PrevOf(pre, e.id).x \/ e.y # PrevOf(pre, e.id).y
                               THEN << [type |-> "enemy_moved", enemyId |-> e.id,
                                        x |-> e.x, y |-> e.y] >>
                               ELSE <<>>)
                              \o (IF e.hp # PrevOf(pre, e.id).hp
                                  THEN << [type |-> "enemy_damaged", enemyId |-> e.id,
                                           hp |-> e.hp] >>
                                  ELSE <<>>)
                         ELSE <<>>]
    IN  Flatten(appeared) \o Flatten(gone) \o Flatten(stayed)

MoveItemDeltas(pre, post, events) ==
    LET prevIds == SeqIds(getVisibleItems(pre))
        current == getVisibleItems(post)
        appeared == [i \in 1..Len(current) |->
                       IF current[i].id \notin prevIds
                       THEN << [type |-> "item_visible", item |-> current[i]] >>
                       ELSE <<>>]
        removed == [i \in 1..Len(events) |->
                      \* isItemPickupEvent(event) || isEquipmentEquippedEvent(event)
                      IF events[i].type \in {"player_healed", "item_picked_up",
                                             "equipment_equipped"}
                      THEN << [type |-> "item_removed", itemId |-> events[i].itemId] >>
                      ELSE <<>>]
    IN  Flatten(appeared) \o Flatten(removed)

\* a delta engine that sends the tiles before the fog cells and the bulk reset first
MoveDeltasShuffled(pre, post, events) ==
    LET posDelta ==
          IF post.player.x # pre.player.x \/ post.player.y # pre.player.y
             \/ post.player.facingDirection # pre.player.facingDirection
          THEN << [type |-> "player_pos", x |-> post.player.x, y |-> post.player.y,
                   facingDirection |-> post.player.facingDirection] >>
          ELSE <<>>
        newlyRevealed == post.fog \ pre.fog
        fogDeltas ==
          IF newlyRevealed # {}
          THEN << [type |-> "tiles_reveal",
                   tiles |-> {<<c[1], c[2], TileAt(post.map, c)>> : c \in newlyRevealed}],
                  [type |-> "fog_reveal", cells |-> newlyRevealed] >>
          ELSE <<>>
        floorDelta ==
          IF \E i \in 1..Len(events) : events[i].type = "floor_descended"
          THEN << [type |-> "new_floor", visibleState |-> getVisibleState(post)] >>
          ELSE <<>>
    IN  floorDelta \o posDelta \o StatsDelta(pre, post) \o ScoreDelta(pre, post)
        \o fogDeltas \o MoveEnemyDeltas(pre, post) \o MoveItemDeltas(pre, post, events)
        \o StatusDelta(post) \o EventDeltas(events)

\* the diff of processMoveWithDeltas, given the state before, the state after and the events
MoveDeltas(pre, post, events) ==
    LET posDelta ==
          IF post.player.x # pre.player.x \/ post.player.y # pre.player.y
             \/ post.player.facingDirection # pre.player.facingDirection
          THEN << [type |-> "player_pos", x |-> post.player.x, y |-> post.player.y,
                   facingDirection |-> post.player.facingDirection] >>
          ELSE <<>>
        equipmentDelta ==
          IF post.player.equipment # pre.player.equipment
          THEN << [type |-> "player_equipment", equipment |-> post.player.equipment] >>
          ELSE <<>>
        newlyRevealed == post.fog \ pre.fog
        fogDeltas ==
          IF newlyRevealed # {}
          THEN << [type |-> "fog_reveal", cells |-> newlyRevealed],
                  [type |-> "tiles_reveal",
                   tiles |-> {<<c[1], c[2], TileAt(post.map, c)>> : c \in newlyRevealed}] >>
          ELSE <<>>
        floorDelta ==
          IF \E i \in 1..Len(events) : events[i].type = "floor_descended"
          THEN << [type |-> "new_floor", visibleState |-> getVisibleState(post)] >>
          ELSE <<>>
    IN  posDelta \o StatsDelta(pre, post) \o equipmentDelta \o ScoreDelta(pre, post)
        \o fogDeltas \o MoveEnemyDeltas(pre, post) \o MoveItemDeltas(pre, post, events)
        \o StatusDelta(post) \o EventDeltas(events) \o floorDelta

\* the result of a turn r together with its deltas against the state before
WithMoveDeltas(pre, r) ==
    [g |-> r.g, events |-> r.events, log |-> r.log,
     deltas |-> MoveDeltas(pre, r.g, r.events)]

processMoveWithDeltas(g, direction, accepted, dr) ==
    WithMoveDeltas(g, processMove(g, direction, accepted, dr))

\* enemy deltas of an attack turn: one pass over state.enemies
AttackEnemyDeltas(pre, post) ==
    Flatten([i \in 1..Len(post.enemies) |->
               LET e == post.enemies[i]
               IN  IF ~HasPrev(pre, e.id) THEN <<>>
                   ELSE (IF e.hp # PrevOf(pre, e.id).hp /\ e.hp > 0
                         THEN << [type |-> "enemy_damaged", enemyId |-> e.id, hp |-> e.hp] >>
                         ELSE <<>>)
                        \o (IF e.hp <= 0 /\ PrevOf(pre, e.id).hp > 0
                            THEN << [type |-> "enemy_killed", enemyId |-> e.id] >>
                            ELSE <<>>)
                        \o (IF e.x # PrevOf(pre, e.id).x \/ e.y # PrevOf(pre, e.id).y
                            THEN << [type |-> "enemy_moved", enemyId |-> e.id,
                                     x |-> e.x, y |-> e.y] >>
                            ELSE <<>>)])

AttackDeltas(pre, post, events) ==
    StatsDelta(pre, post) \o ScoreDelta(pre, post) \o AttackEnemyDeltas(pre, post)
    \o StatusDelta(post) \o EventDeltas(events)

WithAttackDeltas(pre, r) ==
    [g |-> r.g, events |-> r.events, log |-> r.log,
     deltas |-> AttackDeltas(pre, r.g, r.events)]

processAttackWithDeltas(g) == WithAttackDeltas(g, processAttack(g))

----------------------------------------------------------------------------
(* ui GameState: the client mirror.  enemies and items are the Map values   *)
(* (one record per id); tiles are the non-null entries of the tile grid.    *)

initFromVisible(visible) ==
    [floor |-> visible.floor, player |-> visible.player,
     status |-> visible.status, score |-> visible.score,
     tiles |-> visible.visibleTiles,
     enemies |-> {visible.visibleEnemies[i] : i \in 1..Len(visible.visibleEnemies)},
     items |-> {visible.visibleItems[i] : i \in 1..Len(visible.visibleItems)},
     fog |-> visible.fog]

MapSet(entries, rec) == {e \in entries : e.id # rec.id} \cup {rec}

applyDelta(m, delta) ==
    CASE delta.type = "player_pos" ->
           [m EXCEPT !.player.x = delta.x, !.player.y = delta.y,
                     !.player.facingDirection = delta.facingDirection]
      [] delta.type = "player_stats" ->
           [m EXCEPT !.player = [f \in DOMAIN m.player |->
                                   IF f \in DOMAIN delta.stats THEN delta.stats[f]
                                   ELSE m.player[f]]]
      [] delta.type = "score" -> [m EXCEPT !.score = delta.score]
      [] delta.type = "player_equipment" -> [m EXCEPT !.player.equipment = delta.equipment]
      [] delta.type = "floor" -> [m EXCEPT !.floor = delta.floor]
      [] delta.type = "enemy_visible" -> [m EXCEPT !.enemies = MapSet(m.enemies, delta.enemy)]
      [] delta.type = "enemy_moved" ->
           [m EXCEPT !.enemies = {IF e.id = delta.enemyId
                                  THEN [e EXCEPT !.x = delta.x, !.y = delta.y]
                                  ELSE e : e \in m.enemies}]
      [] delta.type = "enemy_damaged" ->
           [m EXCEPT !.enemies = {IF e.id = delta.enemyId
                                  THEN [e EXCEPT !.hp = delta.hp]
                                  ELSE e : e \in m.enemies}]
      [] delta.type \in {"enemy_killed", "enemy_hidden"} ->
           [m EXCEPT !.enemies = {e \in m.enemies : e.id # delta.enemyId}]
      [] delta.type = "item_visible" -> [m EXCEPT !.items = MapSet(m.items, delta.item)]
      [] delta.type = "item_removed" ->
           [m EXCEPT !.items = {i \in m.items : i.id # delta.itemId}]
      [] delta.type = "fog_reveal" ->
           [m EXCEPT !.fog = m.fog \cup
               {c \in delta.cells : c[2] >= 0 /\ c[2] < MAP_HEIGHT
                                    /\ c[1] >= 0 /\ c[1] < MAP_WIDTH}]
      [] delta.type = "tiles_reveal" ->
           [m EXCEPT !.tiles =
               {t \in m.tiles : ~\E n \in delta.tiles : n[1] = t[1] /\ n[2] = t[2]}
               \cup delta.tiles]
      [] delta.type = "game_status" -> [m EXCEPT !.status = delta.status]
      [] delta.type = "event" -> m
      [] delta.type = "new_floor" -> initFromVisible(delta.visibleState)
      [] OTHER -> m

RECURSIVE applyDeltas(_, _)
applyDeltas(m, deltas) ==
    IF deltas = <<>> THEN m ELSE applyDeltas(applyDelta(m, Head(deltas)), Tail(deltas))

----------------------------------------------------------------------------
(* Games the turn engine is started on.  A game is created by createNewGame *)
(* (POST /new) or is a stored game resumed by a connection: the player has  *)
(* arrived on a deeper floor by descendStairs and has walked some steps.    *)
(* Every draw is checked against what the generator's random calls can      *)
(* return (ValidDraws).                                                     *)

\* the rooms in the order the generator accepted them; sorted, the first room is
\* Room(10,10,4,4) (start <<12,12>>) and the last is Room(15,10,4,4) (stairs <<17,12>>)
Layout ==
    << Room(10, 10, 4, 4), Room(15, 10, 4, 4), Room(10, 15, 4, 4),
       Room(13, 5, 4, 4), Room(18, 1, 4, 4) >>

roomsOverlap(a, b) ==
    /\ a.x < b.x + b.width + 1
    /\ a.x + a.width + 1 > b.x
    /\ a.y < b.y + b.height + 1
    /\ a.y + a.height + 1 > b.y

\* what the room loop of generateMap can accept
ValidLayout(accepted) ==
    /\ Len(accepted) \in 1..8
    /\ \A i \in 1..Len(accepted) :
          /\ accepted[i].x \in 1..(MAP_WIDTH - 10)
          /\ accepted[i].y \in 1..(MAP_HEIGHT - 8)
          /\ accepted[i].width \in 4..8
          /\ accepted[i].height \in 4..6
          /\ accepted[i].x + accepted[i].width < MAP_WIDTH - 1
          /\ accepted[i].y + accepted[i].height < MAP_HEIGHT - 1
          /\ \A j \in 1..(i - 1) : ~roomsOverlap(accepted[i], accepted[j])

ED(room, x, y, type, variant, behavior) ==
    [room |-> room, x |-> x, y |-> y, type |-> type, variant |-> variant,
     behavior |-> behavior]

ID(room, x, y, equipment) == [room |-> room, x |-> x, y |-> y, equipment |-> equipment]

\* n further enemies seeded in the far room Room(18,1,4,4)
FarEnemies(n, type, variant, behavior) ==
    [i \in 1..n |-> ED(4, 18 + (i % 4), 1 + ((i \div 4) % 4), type, variant, behavior)]

\* floor 1: a rat out of sight at <<18,11>>, a second rat seeded on the same cell,
\* an elite rat in sight; a potion left of the start, a sword above it
DrawsA ==
    [enemies |-> << ED(5, 18, 11, "rat", "normal", "flee"),
                    ED(5, 16, 12, "rat", "elite", "flee"),
                    ED(5, 18, 11, "rat", "normal", "flee") >>,
     potions |-> << ID(1, 11, 12, None) >>,
     equipment |-> << ID(1, 12, 11, "rusty_sword") >>]

\* floor 2: two rats three steps from the start, right of it and below it
DrawsB ==
    [enemies |-> << ED(5, 15, 12, "rat", "elite", "flee"),
                    ED(3, 12, 15, "rat", "normal", "flee") >>
                 \o FarEnemies(2, "rat", "normal", "flee"),
     potions |-> << ID(1, 12, 11, None) >>,
     equipment |-> << ID(1, 11, 12, "wooden_shield") >>]

\* floor 1: every enemy in the far room
DrawsD ==
    [enemies |-> FarEnemies(3, "rat", "normal", "flee"),
     potions |-> << ID(4, 19, 2, None) >>,
     equipment |-> << ID(4, 20, 2, "leather_armor") >>]

\* floors 19 and 20: every enemy in the far room
DrawsDeep(n) ==
    [enemies |-> << ED(4, 19, 3, "orc", "champion", "aggressive") >>
                 \o FarEnemies(n - 1, "skeleton", "normal", "patrol"),
     potions |-> << ID(4, 19, 2, None) >>,
     equipment |-> << ID(4, 20, 2, "plate_armor") >>]

FloorDraws(floor) ==
    CASE floor = 1 -> {DrawsA, DrawsD}
      [] floor = 2 -> {DrawsB}
      [] floor = WIN_FLOOR - 1 -> {DrawsDeep(12)}
      [] floor = WIN_FLOOR -> {DrawsDeep(13)}
      [] OTHER -> {}

Directions == {"up", "down", "left", "right"}

\* a stored game whose player stands on the stairs of the floor above, with the
\* damage taken so far; no enemy was killed on the way (score 100 per descent)
OnStairsAbove(character, floor, hpLoss) ==
    LET stats == CHARACTER_STATS[character]
    IN  [floor |-> floor - 1,
         player |-> [x |-> 17, y |-> 12,
                     hp |-> stats.hp - hpLoss, maxHp |-> stats.maxHp,
                     attack |-> stats.attack, defense |-> stats.defense,
                     xp |-> 0, level |-> 1, xpToNextLevel |-> getXpToNextLevel(1),
                     equipment |-> [weapon |-> None, shield |-> None,
                                    armor |-> None, ranged |-> None],
                     character |-> character, facingDirection |-> "right"],
         map |-> generateMap(floor - 1, character, Layout, DrawsD).map,
         enemies |-> <<>>, items |-> <<>>, fog |-> {},
         status |-> "active", score |-> DESCEND_SCORE * (floor - 2)]

Arrival(character, floor, hpLoss, dr) ==
    IF floor = 1 THEN createNewGame(character, Layout, dr)
    ELSE descendStairs(OnStairsAbove(character, floor, hpLoss), Layout, dr).g

RECURSIVE Walk(_, _)
Walk(g, path) ==
    IF path = <<>> THEN g
    ELSE Walk(processMove(g, Head(path), Layout, DrawsB).g, Tail(path))

Scenario(character, floor, hpLoss, dr, path) ==
    [character |-> character, floor |-> floor, hpLoss |-> hpLoss, dr |-> dr, path |-> path]

ToStairs == <<"right", "right", "right", "right">>

Scenarios ==
    { Scenario("dwarf", 1, 0, DrawsA, <<>>),
      Scenario("wizard", 2, 18, DrawsB, <<>>),
      Scenario("elf", 1, 0, DrawsD, ToStairs),
      Scenario("dwarf", WIN_FLOOR - 1, 0, DrawsDeep(12), ToStairs) }

StartGame(sc) == Walk(Arrival(sc.character, sc.floor, sc.hpLoss, sc.dr), sc.path)

----------------------------------------------------------------------------
(* The turn-engine specification: one action per intent of the protocol.    *)

NoTurn(g) ==
    [kind |-> "init", dir |-> None, pre |-> g, events |-> <<>>, deltas |-> <<>>,
     log |-> <<>>]

ConnIdle ==
    /\ sess = <<>>
    /\ cache = <<>>
    /\ db = <<>>
    /\ board = <<>>
    /\ conns = <<>>
    /\ sent = <<>>
    /\ budget = <<>>
    /\ proc = <<>>

Init ==
    /\ \E sc \in Scenarios :
          /\ ValidLayout(Layout)
          /\ ValidDraws(Layout, sc.floor, sc.character, sc.dr)
          /\ game = StartGame(sc)
          /\ game.status = "active"          \* a connection resumes active games only
    /\ turn = NoTurn(game)
    /\ turns = 0
    /\ ConnIdle

\* the draws of the next floor are consumed only by a step onto the stairs
DrawsOfMove(g, direction) ==
    IF FloorDraws(g.floor + 1) = {} THEN {DrawsB} ELSE FloorDraws(g.floor + 1)

\* the turn's result r becomes the game; the turn record keeps what was returned
TurnTaken(kind, direction, r) ==
    /\ game' = r.g
    /\ turn' = [kind |-> kind, dir |-> direction, pre |-> game,
                events |-> r.events, deltas |-> r.deltas, log |-> r.log]
    /\ turns' = turns + 1

Move(direction) ==
    /\ game.status = "active"
    /\ turns < MaxTurns
    /\ \E dr \in DrawsOfMove(game, direction) :
          TurnTaken("move", direction, processMoveWithDeltas(game, direction, Layout, dr))
    /\ UNCHANGED connVars

Attack ==
    /\ game.status = "active"
    /\ turns < MaxTurns
    /\ TurnTaken("attack", None, processAttackWithDeltas(game))
    /\ UNCHANGED connVars

Next ==
    \/ \E direction \in Directions : Move(direction)
    \/ Attack

Spec == Init /\ [][Next]_vars

----------------------------------------------------------------------------
(* Properties of the turn engine (specification Spec)                       *)

IsMoveTurn == turn.kind = "move"
IsAttackTurn == turn.kind = "attack"

DeltasOf(types) == SelectSeq(turn.deltas, LAMBDA d : d.type \in types)

EventsOf(type) == SelectSeq(turn.events, LAMBDA e : e.type = type)

\* the enemy of the state after the turn with this id stands on a revealed cell
EnemyInFog(id) ==
    \E i \in 1..Len(game.enemies) :
        game.enemies[i].id = id /\ EnemyCell(game.enemies[i]) \in game.fog

HiddenLiveEnemies(g) ==
    {i \in 1..Len(g.enemies) : g.enemies[i].hp > 0 /\ EnemyCell(g.enemies[i]) \notin g.fog}

\* the mirror of a client that held the visible state before the turn and applied
\* the turn's deltas in list order
MirrorAfterTurn == applyDeltas(initFromVisible(getVisibleState(turn.pre)), turn.deltas)

\* the mirror of a client initialised from the visible state after the turn
MirrorOfGame == initFromVisible(getVisibleState(game))

\* C1: on an attack turn every enemy named by an enemy_moved, enemy_damaged or
\* enemy_killed delta stands, after the turn, on a cell whose fog value is true.
C1_AttackDeltasNameOnlyVisibleEnemies ==
    IsAttackTurn =>
        \A i \in 1..Len(turn.deltas) :
            turn.deltas[i].type \in {"enemy_moved", "enemy_damaged", "enemy_killed"}
                => EnemyInFog(turn.deltas[i].enemyId)

\* C2: on a move turn (a descending one included) every enemy carried by
\* enemy_visible, enemy_moved or enemy_damaged, every item carried by item_visible,
\* every tile carried by tiles_reveal and everything inside a new_floor visible
\* state lies on a cell whose fog value is true after the turn.
C2_MoveDeltasLieInFog ==
    IsMoveTurn =>
        \A i \in 1..Len(turn.deltas) :
            LET d == turn.deltas[i]
            IN  /\ d.type = "enemy_visible" =>
                     /\ EnemyCell(d.enemy) \in game.fog
                     /\ EnemyInFog(d.enemy.id)
                /\ d.type = "enemy_moved" =>
                     /\ <<d.x, d.y>> \in game.fog
                     /\ EnemyInFog(d.enemyId)
                /\ d.type = "enemy_damaged" => EnemyInFog(d.enemyId)
                /\ d.type = "item_visible" => ItemCell(d.item) \in game.fog
                /\ d.type = "tiles_reveal" =>
                     \A t \in d.tiles : <<t[1], t[2]>> \in game.fog
                /\ d.type = "new_floor" =>
                     /\ \A k \in 1..Len(d.visibleState.visibleEnemies) :
                           EnemyCell(d.visibleState.visibleEnemies[k]) \in game.fog
                     /\ \A k \in 1..Len(d.visibleState.visibleItems) :
                           ItemCell(d.visibleState.visibleItems[k]) \in game.fog
                     /\ \A t \in d.visibleState.visibleTiles : <<t[1], t[2]>> \in game.fog

\* C2 witness: a move turn that reports an enemy as newly visible while another
\* live enemy stays outside the fog
C2_Witness ==
    /\ IsMoveTurn
    /\ DeltasOf({"enemy_visible"}) # <<>>
    /\ DeltasOf({"tiles_reveal"}) # <<>>
    /\ HiddenLiveEnemies(game) # {}

\* a descending move whose new_floor visible state carries enemies
DescendWithVisibleEnemies ==
    /\ IsMoveTurn
    /\ \E i \in 1..Len(turn.deltas) :
          /\ turn.deltas[i].type = "new_floor"
          /\ turn.deltas[i].visibleState.visibleEnemies # <<>>

\* C3: on a move turn the mirror that applied the deltas equals the visible state
\* after the turn in player, floor, score, status, fog, known tiles, enemies, items.
C3_MoveMirrorEqualsVisibleState ==
    IsMoveTurn => MirrorAfterTurn = MirrorOfGame

\* C4: on an attack turn the mirror that applied the deltas equals the visible
\* state after the turn in player, score, status, enemies and items.
C4_AttackMirrorEqualsVisibleState ==
    IsAttackTurn =>
        /\ MirrorAfterTurn.player = MirrorOfGame.player
        /\ MirrorAfterTurn.score = MirrorOfGame.score
        /\ MirrorAfterTurn.status = MirrorOfGame.status
        /\ MirrorAfterTurn.enemies = MirrorOfGame.enemies
        /\ MirrorAfterTurn.items = MirrorOfGame.items

LiveEnemies(g) == {i \in 1..Len(g.enemies) : g.enemies[i].hp > 0}

\* C6: at every turn boundary no two live enemies occupy the same cell and no live
\* enemy occupies the player's cell.
C6_NoSharedCells ==
    /\ \A i, j \in LiveEnemies(game) :
          i # j => EnemyCell(game.enemies[i]) # EnemyCell(game.enemies[j])
    /\ \A i \in LiveEnemies(game) : EnemyCell(game.enemies[i]) # PlayerCell(game)

\* C7: after every turn the player's hp and every enemy's hp lie in [0, maxHp].
C7_HpWithinBounds ==
    /\ game.player.hp >= 0
    /\ game.player.hp <= game.player.maxHp
    /\ \A i \in 1..Len(game.enemies) :
          /\ game.enemies[i].hp >= 0
          /\ game.enemies[i].hp <= game.enemies[i].maxHp

\* C8: a move or attack turn that ends with status dead emits exactly one
\* player_died event, and the enemy attack that killed the player is the last
\* enemy action of the turn.
C8_OneDeathLastAction ==
    (turn.kind \in {"move", "attack"} /\ game.status = "dead") =>
        /\ Len(EventsOf("player_died")) = 1
        /\ turn.events[Len(turn.events)].type = "player_died"
        /\ Len(turn.log) >= 1
        /\ turn.log[Len(turn.log)].act = "attack"
        /\ turn.log[Len(turn.log)].killed
        /\ \A i \in 1..(Len(turn.log) - 1) : ~turn.log[i].killed

\* C8 witness: the player dies while a second live enemy stands next to the player
\* and has not acted
C8_Witness ==
    /\ turn.kind \in {"move", "attack"}
    /\ game.status = "dead"
    /\ \E i \in LiveEnemies(game) :
          /\ isAdjacentToPlayer(game.enemies[i], game.player.x, game.player.y)
          /\ \A k \in 1..Len(turn.log) :
                turn.log[k].id = game.enemies[i].id => turn.log[k].act = "move"

----------------------------------------------------------------------------
(* gameSessionManager.ts and routes/game.ts: one game id, its session-      *)
(* manager entries, its stored document, the leaderboard, and the handler   *)
(* closures of the sockets opened on /:id/ws.  An absent map entry is the   *)
(* empty sequence, a present one a sequence of length one.  A handler       *)
(* suspended at an await is a value of its await field; the continuation is *)
(* a separate action, so other handlers run in between.                     *)

Sockets == 1..MaxSockets

MAX_QUEUE_SIZE == 5

Msg(type, direction) == [type |-> type, direction |-> direction]

\* what a client may put on the socket: intents, an unknown direction, a message
\* of a type the handler has no branch for, and a frame that JSON.parse rejects
ClientFrames ==
    { Msg("move", "right"), Msg("move", "left"), Msg("move", "north"),
      Msg("attack", None), Msg("pause", None), Msg("resume", None),
      Msg("ping", None), Msg("garbage", None) }

isDirection(value) == value \in {"up", "down", "left", "right"}

\* inflight counts the invocations of processNextMessage that have dequeued a
\* message and not reached the finally block; owed counts the turns of the
\* connection whose update has not been handed to socket.send; pendingMessages
\* is the client's pendingMessagesRef for this socket and read the number of
\* frames of sent[c] its onmessage handler has run for
NewConn ==
    [pc |-> "new", queue |-> <<>>, processingMessage |-> FALSE, await |-> "none",
     local |-> <<>>, unreg |-> "none", unregDoc |-> <<>>, order |-> 0,
     outcome |-> "none", inflight |-> 0, owed |-> 0,
     pendingMessages |-> 0, read |-> 0]

\* a socket that still delivers after its close
SendAlways(c, frame) == [sent EXCEPT ![c] = Append(sent[c], frame)]

\* socket.send: nothing is delivered on a socket that is no longer open
Send(c, frame) ==
    IF conns[c].pc \in {"finding", "open"}
    THEN [sent EXCEPT ![c] = Append(sent[c], frame)]
    ELSE sent

ErrorFrame(message) == [type |-> "error", message |-> message]

UpdateFrame(deltas) == [type |-> "update", deltas |-> deltas]

\* lastActivity is kept as the truth of now - lastActivity > SESSION_TIMEOUT
registerSession(c) == << [socket |-> c, isPaused |-> FALSE, stale |-> FALSE] >>

updateSessionActivity(s) == IF s # <<>> THEN << [s[1] EXCEPT !.stale = FALSE] >> ELSE s

pauseSession(s) == IF s # <<>> THEN << [s[1] EXCEPT !.isPaused = TRUE] >> ELSE s

resumeSession(s) ==
    IF s # <<>> /\ s[1].isPaused
    THEN << [s[1] EXCEPT !.isPaused = FALSE, !.stale = FALSE] >>
    ELSE s

getCachedGameState == cache

\* what reading property name of an event's data gives
Undefined == "undefined"

DataField(data, name) == IF name \in DOMAIN data THEN data[name] ELSE Undefined

\* const { killedBy, killedByType, killedByVariant } = killedByEvent.data
KilledByFields(l, died) ==
    [score |-> l.game.score, floor |-> l.game.floor, status |-> l.status,
     killedBy |-> DataField(died, "killedBy"),
     killedByType |-> DataField(died, "killedByType"),
     killedByVariant |-> DataField(died, "killedByVariant")]

\* the leaderboard document of a finished game, from the handler's locals
LeaderboardDoc(l) ==
    IF l.status = "dead"
    THEN KilledByFields(l, SelectSeq(l.events, LAMBDA e : e.type = "player_died")[1])
    ELSE [score |-> l.game.score, floor |-> l.game.floor, status |-> l.status,
          killedBy |-> None, killedByType |-> None, killedByVariant |-> None]

\* a handler that never checkpoints
isCheckpointNever(kind, status, deltas) == FALSE

\* isCheckpoint of the move branch; the attack branch saves on death only
isCheckpoint(kind, status, deltas) ==
    IF kind = "move"
    THEN \/ status = "dead"
         \/ status = "won"
         \/ \E i \in 1..Len(deltas) : deltas[i].type = "new_floor"
    ELSE status = "dead"

\* a finally block that leaves the processing flag set
FinishHolding(c, cs, outcome) ==
    [cs EXCEPT !.await = "none", !.local = <<>>,
               !.outcome = outcome, !.inflight = @ - 1,
               !.owed = IF outcome = "sent" THEN @ - 1 ELSE @]

\* the finally block: the flag is cleared; the setImmediate callback is Immediate
Finish(c, cs, outcome) ==
    [cs EXCEPT !.processingMessage = FALSE, !.await = "none", !.local = <<>>,
               !.outcome = outcome, !.inflight = @ - 1,
               !.owed = IF outcome = "sent" THEN @ - 1 ELSE @]

\* the move or attack branch once the turn engine has returned r: cache update,
\* then the first await of a checkpoint turn or the update frame
TurnProcessed(c, cs, m, r) ==
    /\ cache' = << r.g >>                                   \* updateCachedGameState
    /\ game' = r.g
    /\ turn' = [kind |-> m.type, dir |-> m.direction, pre |-> cache[1],
                events |-> r.events, deltas |-> r.deltas, log |-> r.log]
    /\ turns' = turns + 1
    /\ sess' = updateSessionActivity(sess)
    /\ UNCHANGED <<db, board, proc>>
    /\ IF isCheckpoint(m.type, r.g.status, r.deltas)
       THEN \* await saveGameStateToDb(id)
            /\ conns' = [conns EXCEPT ![c] =
                           [cs EXCEPT !.await = "save", !.owed = @ + 1,
                                      !.local = << [kind |-> m.type, status |-> r.g.status,
                                                    events |-> r.events,
                                                    deltas |-> r.deltas, game |-> r.g] >>]]
            /\ sent' = sent
       ELSE /\ conns' = [conns EXCEPT ![c] = Finish(c, [cs EXCEPT !.owed = @ + 1], "sent")]
            /\ sent' = Send(c, UpdateFrame(r.deltas))

\* a frame answered without a turn: at most an error frame and a session change
Answered(c, cs, frames, s, outcome) ==
    /\ sent' = frames
    /\ sess' = s
    /\ conns' = [conns EXCEPT ![c] = Finish(c, cs, outcome)]
    /\ UNCHANGED <<game, turn, turns, cache, db, board, proc>>

\* processNextMessage for the frame m, the queue already shifted and the flag set
\* in cs, up to the first await or the end
Handle(c, cs, m) ==
    CASE m.type = "garbage" ->
           Answered(c, cs, Send(c, ErrorFrame("Invalid message format")), sess, "rejected")
      [] m.type = "pause" -> Answered(c, cs, sent, pauseSession(sess), "done")
      [] m.type = "resume" -> Answered(c, cs, sent, resumeSession(sess), "done")
      [] OTHER ->
           IF getCachedGameState = <<>> \/ getCachedGameState[1].status # "active"
           THEN Answered(c, cs, Send(c, ErrorFrame("Game is no longer active")),
                         updateSessionActivity(sess), "rejected")
           ELSE IF m.type = "move" /\ ~isDirection(m.direction)
           THEN Answered(c, cs, Send(c, ErrorFrame("Invalid direction")),
                         updateSessionActivity(sess), "rejected")
           ELSE IF m.type = "move"
           THEN \E dr \in DrawsOfMove(cache[1], m.direction) :
                    TurnProcessed(c, cs, m,
                                  processMoveWithDeltas(cache[1], m.direction, Layout, dr))
           ELSE IF m.type = "attack"
           THEN TurnProcessed(c, cs, m, processAttackWithDeltas(cache[1]))
           \* no branch for any other type: the try block ends without a send
           ELSE Answered(c, cs, sent, updateSessionActivity(sess), "ignored")

\* processNextMessage; q is the queue before the shift
Process(c, q) ==
    Handle(c, [conns[c] EXCEPT !.queue = Tail(q), !.processingMessage = TRUE,
                               !.inflight = @ + 1], Head(q))

\* a handler without the processingMessage guard
BusyNever(c) == FALSE

\* the first test of processNextMessage: a message of this connection is in hand
Busy(c) == conns[c].processingMessage

\* a handler that never drops an arrival
QueueFullNever(c) == FALSE

\* the test of socket.on('message') that drops the arrival
QueueFull(c) == Len(conns[c].queue) >= MAX_QUEUE_SIZE

\* GET /:id/ws is invoked for a new socket and awaits games().findOne
Connect(c) ==
    /\ conns[c].pc = "new"
    /\ conns' = [conns EXCEPT ![c].pc = "finding"]
    /\ UNCHANGED <<game, turn, turns, sess, cache, db, board, sent, budget, proc>>

RegistrationOrder == 1 + CHOOSE n \in 0..MaxSockets :
                              /\ \E c \in Sockets : conns[c].order = n
                              /\ \A c \in Sockets : conns[c].order <= n

\* findOne resolves: error and close, or init, registerSession and the handlers
Found(c) ==
    /\ conns[c].pc = "finding"
    /\ IF db = <<>>
       THEN /\ sent' = Send(c, ErrorFrame("Game not found"))
            /\ conns' = [conns EXCEPT ![c].pc = "closed"]
            /\ UNCHANGED <<sess, cache>>
       ELSE IF db[1].status # "active"
       THEN /\ sent' = Send(c, ErrorFrame("Game is not active"))
            /\ conns' = [conns EXCEPT ![c].pc = "closed"]
            /\ UNCHANGED <<sess, cache>>
       ELSE /\ sent' = Send(c, [type |-> "init", state |-> getVisibleState(db[1])])
            /\ cache' = << db[1] >>
            /\ sess' = registerSession(c)
            /\ conns' = [conns EXCEPT ![c].pc = "open", ![c].order = RegistrationOrder]
    /\ UNCHANGED <<game, turn, turns, db, board, budget, proc>>

\* socket.on('message'): drop on a full queue, else push and processNextMessage
Receive(c, frame) ==
    /\ conns[c].pc = "open"
    /\ budget.messages > 0
    /\ budget' = [budget EXCEPT !.messages = budget.messages - 1]
    /\ IF QueueFull(c)
       THEN UNCHANGED <<game, turn, turns, sess, cache, db, board, conns, sent, proc>>
       ELSE IF Busy(c)
       THEN /\ conns' = [conns EXCEPT ![c].queue = Append(conns[c].queue, frame)]
            /\ UNCHANGED <<game, turn, turns, sess, cache, db, board, sent, proc>>
       ELSE Process(c, Append(conns[c].queue, frame))

\* the setImmediate callback queued by the finally block
Immediate(c) ==
    /\ ~Busy(c)
    /\ conns[c].queue # <<>>
    /\ Process(c, conns[c].queue)
    /\ budget' = budget

\* a store write either succeeds or, while failures are left, rejects; once
\* closeDatabase has cleared the client, getDb throws and every write rejects
StoreOutcomes ==
    IF proc.store = "closed" THEN {FALSE}
    ELSE IF budget.failures > 0 THEN {TRUE, FALSE} ELSE {TRUE}

SpendFailure(ok) ==
    budget' = IF ok \/ proc.store = "closed"
              THEN budget
              ELSE [budget EXCEPT !.failures = budget.failures - 1]

\* the catch block and the finally block after a rejected await
Caught(c) ==
    /\ sent' = Send(c, ErrorFrame("Invalid message format"))
    /\ conns' = [conns EXCEPT ![c] = Finish(c, conns[c], "failed")]

\* the handler resumes after await saveGameStateToDb(id)
SaveDone(c) ==
    /\ conns[c].await = "save"
    /\ \E ok \in StoreOutcomes :
          LET l == conns[c].local[1]
          IN  /\ SpendFailure(ok)
              /\ IF ~ok
                 THEN Caught(c) /\ db' = db            \* saveGameStateToDb rethrows
                 ELSE /\ db' = << l.game >>
                      /\ IF l.status \in {"dead", "won"}
                         THEN \* await leaderboard().insertOne
                              /\ conns' = [conns EXCEPT ![c].await = "insert"]
                              /\ sent' = sent
                         ELSE /\ conns' = [conns EXCEPT ![c] = Finish(c, conns[c], "sent")]
                              /\ sent' = Send(c, UpdateFrame(l.deltas))
    /\ UNCHANGED <<game, turn, turns, sess, cache, board, proc>>

\* the handler resumes after await leaderboard().insertOne
InsertDone(c) ==
    /\ conns[c].await = "insert"
    /\ \E ok \in StoreOutcomes :
          LET l == conns[c].local[1]
          IN  /\ SpendFailure(ok)
              /\ IF ~ok
                 THEN Caught(c) /\ board' = board
                 ELSE /\ board' = Append(board, LeaderboardDoc(l))
                      /\ conns' = [conns EXCEPT ![c] = Finish(c, conns[c], "sent")]
                      /\ sent' = Send(c, UpdateFrame(l.deltas))
    /\ UNCHANGED <<game, turn, turns, sess, cache, db, proc>>

\* socket.on('close'): unregisterSession(id, socket) up to its await
Close(c) ==
    /\ conns[c].pc = "open"
    /\ IF sess = <<>> \/ sess[1].socket # c
       THEN /\ conns' = [conns EXCEPT ![c].pc = "closed", ![c].unreg = "done"]
            /\ sess' = sess
       ELSE IF cache # <<>>
       THEN \* await games.replaceOne({ _id: gameId }, cachedState)
            /\ conns' = [conns EXCEPT ![c].pc = "closed", ![c].unreg = "replacing",
                                      ![c].unregDoc = cache]
            /\ sess' = sess
       ELSE /\ conns' = [conns EXCEPT ![c].pc = "closed", ![c].unreg = "done"]
            /\ sess' = <<>>
    /\ UNCHANGED <<game, turn, turns, cache, db, board, sent, budget, proc>>

\* unregisterSession resumes after its replaceOne: the failure is logged, then both
\* map entries of the game id are deleted
UnregDone(c) ==
    /\ conns[c].unreg = "replacing"
    /\ \E ok \in StoreOutcomes :
          /\ SpendFailure(ok)
          /\ db' = IF ok THEN conns[c].unregDoc ELSE db
    /\ cache' = <<>>
    /\ sess' = <<>>
    /\ conns' = [conns EXCEPT ![c].unreg = "done", ![c].unregDoc = <<>>]
    /\ UNCHANGED <<game, turn, turns, board, sent, proc>>

\* the process after start(): the interval is armed and idle, no signal has
\* arrived, the store client is connected.  sweeps counts interval callbacks;
\* drainDoc and written record what gracefulShutdown had to flush.
ProcIdle ==
    [sweep |-> "idle", sweepDoc |-> <<>>, sweeps |-> 0,
     signalled |-> FALSE, drain |-> "none", drainDoc |-> <<>>, written |-> FALSE,
     store |-> "open", server |-> "open", exited |-> FALSE]

\* a stored active game, no connection yet, and the given message and failure budgets
ConnStart(messages, failures) ==
    /\ \E sc \in Scenarios :
          /\ ValidLayout(Layout)
          /\ ValidDraws(Layout, sc.floor, sc.character, sc.dr)
          /\ db = << StartGame(sc) >>
          /\ db[1].status = "active"
    /\ game = db[1]
    /\ turn = NoTurn(game)
    /\ turns = 0
    /\ sess = <<>>
    /\ cache = <<>>
    /\ board = <<>>
    /\ conns = [c \in Sockets |-> NewConn]
    /\ sent = [c \in Sockets |-> <<>>]
    /\ budget = [messages |-> messages, failures |-> failures]
    /\ proc = ProcIdle

ConnInit == ConnStart(MaxMessages, MaxFailures)

ConnNext ==
    \/ \E c \in Sockets : Connect(c)
    \/ \E c \in Sockets : Found(c)
    \/ \E c \in Sockets : \E frame \in ClientFrames : Receive(c, frame)
    \/ \E c \in Sockets : Immediate(c)
    \/ \E c \in Sockets : SaveDone(c)
    \/ \E c \in Sockets : InsertDone(c)
    \/ \E c \in Sockets : Close(c)
    \/ \E c \in Sockets : UnregDone(c)

ConnSpec == ConnInit /\ [][ConnNext]_vars

----------------------------------------------------------------------------
(* Claims about the connection handler and the session manager, checked    *)
(* under ConnSpec.                                                          *)

\* the socket whose registerSession call was the latest one
LatestRegistered(c) ==
    /\ conns[c].order > 0
    /\ \A d \in Sockets : conns[d].order <= conns[c].order

\* C5: once an old connection's close handling (its awaited checkpoint write
\* included) and a later connection's register for the same game id have both
\* finished, the later connection's session and cached state are still present.
C5_StaleCloseKeepsNewSession ==
    \A old, new \in Sockets :
        ( /\ old # new
          /\ conns[old].pc = "closed"
          /\ conns[old].unreg = "done"
          /\ conns[old].order > 0
          /\ conns[new].pc = "open"
          /\ LatestRegistered(new) )
        => /\ sess # <<>>
           /\ sess[1].socket = new
           /\ cache # <<>>

\* no handler is suspended at a store write
NoWritePending == \A c \in Sockets : conns[c].await = "none"

\* C9: the leaderboard receives exactly one insert for the turn on which status
\* becomes dead or won, and no other insert at any time in the game's life.
C9_OneLeaderboardInsert ==
    /\ Len(board) <= 1
    /\ board # <<>> => game.status \in {"dead", "won"}
    /\ (game.status \in {"dead", "won"} /\ NoWritePending) => Len(board) = 1

\* the step in which the handler of socket c resumes from a store write that
\* was rejected
WriteFailedFor(c) ==
    /\ conns[c].await \in {"save", "insert"}
    /\ conns'[c] # conns[c]
    /\ budget'.failures < budget.failures

\* C10: when the checkpoint write or the leaderboard write of a turn fails, the
\* session and its cached state stay in memory and the update message carrying
\* that turn's deltas is still sent to the client.
C10_WriteFailureStillSendsUpdate ==
    [][ \A c \in Sockets :
          (WriteFailedFor(c) /\ conns[c].pc = "open")
          => /\ sess' = sess /\ sess' # <<>>
             /\ cache' = cache /\ cache' # <<>>
             /\ sent'[c] = Append(sent[c], UpdateFrame(conns[c].local[1].deltas)) ]_vars

\* a message the protocol has no valid reading for in the current state: malformed
\* JSON, an unknown type, an invalid direction, or an action on a game that is
\* not active
IsProtocolError(m) ==
    \/ m.type \in {"garbage", "ping"}
    \/ m.type = "move" /\ ~isDirection(m.direction)
    \/ m.type \in {"move", "attack"} /\ (cache = <<>> \/ cache[1].status # "active")

\* the step appends exactly one error frame to the frames sent on socket c and
\* leaves the cached game, the stored game and the leaderboard as they were
ErrorReplied(c) ==
    /\ Len(sent'[c]) = Len(sent[c]) + 1
    /\ sent'[c][Len(sent'[c])].type = "error"
    /\ SubSeq(sent'[c], 1, Len(sent[c])) = sent[c]
    /\ cache' = cache /\ db' = db /\ board' = board

\* C11: every protocol error on an open connection (malformed JSON, unknown
\* type, invalid direction, move or attack on a game that is not active) is
\* answered with an error message on that connection and leaves the game state
\* unchanged.
C11_ProtocolErrorAnswered ==
    [][ \A c \in Sockets :
          /\ \A frame \in ClientFrames :
                ( /\ conns[c].pc = "open" /\ ~Busy(c) /\ ~QueueFull(c)
                  /\ IsProtocolError(Head(Append(conns[c].queue, frame)))
                  /\ Receive(c, frame) )
                => ErrorReplied(c)
          /\ ( /\ conns[c].pc = "open" /\ ~Busy(c) /\ conns[c].queue # <<>>
               /\ IsProtocolError(Head(conns[c].queue))
               /\ Immediate(c) )
             => ErrorReplied(c) ]_vars

\* the step in which findOne resolves for socket c and the handler registers it
Registers(c) == conns[c].pc = "finding" /\ conns'[c].pc = "open"

\* every socket registered for the game before this step has closed
IsReconnect(c) ==
    /\ \E d \in Sockets \ {c} : conns[d].order > 0
    /\ \A d \in Sockets \ {c} : conns[d].order > 0 => conns[d].pc = "closed"

\* C12: when a client re-opens a connection for an active game, the init frame
\* carries the visible state of the latest server state (every turn processed
\* before is reflected) and the registered session's cached state is that state,
\* whatever the old connection's close handling is doing.
C12_ReconnectInitIsLatestState ==
    [][ \A c \in Sockets :
          (Registers(c) /\ IsReconnect(c) /\ game.status = "active")
          => /\ sent'[c] = Append(sent[c], [type |-> "init", state |-> getVisibleState(game)])
             /\ cache' = << game >> ]_vars

\* C14: for each connection, the handling of one message, from its dequeue
\* through its checkpoint and leaderboard writes to the sending of its reply,
\* never overlaps the handling of another message of that connection.
C14_NoOverlappingHandling ==
    \A c \in Sockets :
        /\ conns[c].inflight \in {0, 1}
        /\ conns[c].inflight = 1 <=> conns[c].processingMessage
        /\ conns[c].await # "none" => conns[c].inflight = 1

\* a message arrived while the handler was suspended at a store write, and waits
C14_Witness ==
    \E c \in Sockets :
        /\ conns[c].await \in {"save", "insert"}
        /\ conns[c].queue # <<>>
        /\ conns[c].inflight = 1

\* the step in which the handler of socket c runs the turn engine on a message
TurnBy(c) ==
    /\ turns' = turns + 1
    /\ sent'[c] # sent[c] \/ conns'[c] # conns[c]

\* the message the handler of socket c takes in this step, if it takes one
Dequeued(c) ==
    IF conns[c].queue # <<>> THEN Head(conns[c].queue) ELSE [type |-> turn'.kind, direction |-> turn'.dir]

\* C15: within a connection, accepted intents are processed in arrival order
\* (the queue only grows at its tail and shrinks at its head, and a turn is the
\* turn of the oldest waiting intent), and the update message of turn N has been
\* sent before turn N+1 of that connection produces any delta.
C15_FifoAndUpdateBeforeNextTurn ==
    [][ \A c \in Sockets :
          /\ conns'[c].queue # conns[c].queue
             => \/ \E frame \in ClientFrames :
                      \/ conns'[c].queue = Append(conns[c].queue, frame)
                      \/ conns'[c].queue = Tail(Append(conns[c].queue, frame))
                \/ conns[c].queue # <<>> /\ conns'[c].queue = Tail(conns[c].queue)
          /\ TurnBy(c)
             => /\ turn'.kind = Dequeued(c).type
                /\ turn'.dir = Dequeued(c).direction
                /\ conns[c].pc = "open" => conns[c].owed = 0 ]_vars

\* the deltas of the latest turn contain a new_floor delta
HasNewFloor == \E i \in 1..Len(turn.deltas) : turn.deltas[i].type = "new_floor"

\* the step in which the awaited checkpoint write of socket c resolves
SaveResolved(c) ==
    /\ conns[c].await = "save"
    /\ conns'[c].await # "save"
    /\ budget'.failures = budget.failures

\* C17: a move or attack turn issues a write of the game to the durable store
\* if and only if the turn ends with status dead or won or its deltas contain a
\* new_floor delta, and the write that resolves stores that turn's state; every
\* other turn changes only the in-memory cache (the store and the leaderboard
\* are untouched and no write is pending for it).
C17_WriteIffCheckpoint ==
    [][ \A c \in Sockets :
          /\ TurnBy(c)
             => /\ conns'[c].await = "save"
                   <=> (game'.status \in {"dead", "won"} \/ HasNewFloor')
                /\ conns'[c].await \in {"save", "none"}
                /\ cache' = << game' >>
                /\ db' = db /\ board' = board
          /\ SaveResolved(c) => db' = << conns[c].local[1].game >> ]_vars

\* after a turn that wrote nothing, a descent waits on its checkpoint write
C17_Witness ==
    \E c \in Sockets :
        /\ turns = 2
        /\ conns[c].await = "save"
        /\ HasNewFloor
        /\ db # <<>> /\ db[1].floor < game.floor
        /\ conns[c].local[1].game = game

\* no handler holds a message: every turn taken so far has run to its end
AtTurnBoundary == \A c \in Sockets : ~conns[c].processingMessage

\* C18: at every turn boundary the stored document of the game is on the same
\* floor as the game's in-memory state, so a session that leaves memory without
\* a successful final checkpoint loses at most the progress of the current floor.
C18_StoreOnSameFloor ==
    (AtTurnBoundary /\ cache # <<>> /\ db # <<>>) => db[1].floor = cache[1].floor

----------------------------------------------------------------------------
(* gameSessionManager.ts: the cleanup interval.  The callback collects the  *)
(* stale ids, then for each one tests isPaused, awaits isDatabaseHealthy    *)
(* and calls unregisterSession without a socket; each await is a separate   *)
(* action, so socket handlers run in between.                               *)

MaxSweeps == 2

\* the frames that touch the session only
SweepFrames == { Msg("pause", None), Msg("resume", None), Msg("ping", None) }

\* time passes: now - lastActivity exceeds SESSION_TIMEOUT
Tick ==
    /\ sess # <<>>
    /\ ~sess[1].stale
    /\ sess' = << [sess[1] EXCEPT !.stale = TRUE] >>
    /\ UNCHANGED <<game, turn, turns, cache, db, board, conns, sent, budget, proc>>

\* the interval callback up to its first await: a session that is stale and not
\* paused sends the callback into isDatabaseHealthy
SweepFire ==
    /\ proc.sweep = "idle"
    /\ proc.sweeps < MaxSweeps
    /\ proc' = [proc EXCEPT !.sweeps = @ + 1,
                            !.sweep = IF sess # <<>> /\ sess[1].stale /\ ~sess[1].isPaused
                                      THEN "health" ELSE "idle"]
    /\ UNCHANGED <<game, turn, turns, sess, cache, db, board, conns, sent, budget>>

\* isDatabaseHealthy resolves: unhealthy deletes both map entries; healthy calls
\* unregisterSession(gameId), which runs up to its replaceOne
SweepHealth ==
    /\ proc.sweep = "health"
    /\ \E healthy \in StoreOutcomes :
          /\ SpendFailure(healthy)
          /\ IF ~healthy
             THEN /\ sess' = <<>>
                  /\ cache' = <<>>
                  /\ proc' = [proc EXCEPT !.sweep = "idle"]
             ELSE IF sess # <<>> /\ cache # <<>>
             THEN /\ proc' = [proc EXCEPT !.sweep = "replacing", !.sweepDoc = cache]
                  /\ UNCHANGED <<sess, cache>>
             ELSE /\ sess' = <<>>
                  /\ cache' = cache
                  /\ proc' = [proc EXCEPT !.sweep = "idle"]
    /\ UNCHANGED <<game, turn, turns, db, board, conns, sent>>

\* the sweeper's unregisterSession resumes after its replaceOne
SweepDone ==
    /\ proc.sweep = "replacing"
    /\ \E ok \in StoreOutcomes :
          /\ SpendFailure(ok)
          /\ db' = IF ok THEN proc.sweepDoc ELSE db
    /\ cache' = <<>>
    /\ sess' = <<>>
    /\ proc' = [proc EXCEPT !.sweep = "idle", !.sweepDoc = <<>>]
    /\ UNCHANGED <<game, turn, turns, board, conns, sent>>

SweepInit == ConnStart(MaxMessages, MaxFailures)

SweepNext ==
    \/ \E c \in Sockets : Connect(c)
    \/ \E c \in Sockets : Found(c)
    \/ \E c \in Sockets : \E frame \in SweepFrames : Receive(c, frame)
    \/ Tick
    \/ SweepFire
    \/ SweepHealth
    \/ SweepDone

SweepSpec == SweepInit /\ [][SweepNext]_vars

\* the step in which the sweeper deletes the session of the game
SweeperRemoves == proc' # proc /\ sess # <<>> /\ sess' = <<>>

\* C13: the idle sweeper removes a session only if, at the moment of removal,
\* the session is not paused and its lastActivity is more than 5 minutes old,
\* whatever pause, resume and activity updates ran during the sweeper's awaits.
C13_SweeperRemovesOnlyStaleUnpaused ==
    [][ SweeperRemoves => (~sess[1].isPaused /\ sess[1].stale) ]_vars

----------------------------------------------------------------------------
(* routes/game.ts: a client that floods one socket with moves while the     *)
(* handler is suspended at a store write.                                   *)

MaxFlood == 7

FloodFrames == { Msg("move", "right") }

QueueInit == ConnStart(MaxFlood, 0)

QueueNext ==
    \/ \E c \in Sockets : Connect(c)
    \/ \E c \in Sockets : Found(c)
    \/ \E c \in Sockets : \E frame \in FloodFrames : Receive(c, frame)
    \/ \E c \in Sockets : Immediate(c)
    \/ \E c \in Sockets : SaveDone(c)
    \/ \E c \in Sockets : InsertDone(c)

QueueSpec == QueueInit /\ [][QueueNext]_vars

\* C16: at every moment the message queue of a connection holds at most 5
\* messages; a message that arrives while 5 are queued is dropped: nothing is
\* sent, and the queue and every other part of the state stay as they were.
C16_QueueBoundedAndOverflowDropped ==
    [][ \A c \in Sockets :
          /\ Len(conns[c].queue) <= 5
          /\ Len(conns'[c].queue) <= 5
          /\ \A frame \in FloodFrames :
                (Len(conns[c].queue) = 5 /\ Receive(c, frame))
                => /\ conns' = conns
                   /\ sent' = sent
                   /\ UNCHANGED <<sess, cache, db, board, game, turns>> ]_vars

\* a socket took one message into a checkpoint turn, queued five more, and a
\* seventh arrived
C16_Witness ==
    \E c \in Sockets :
        /\ Len(conns[c].queue) = 5
        /\ conns[c].await = "save"
        /\ turns = 1
        /\ budget.messages = 0
        /\ \A d \in Sockets \ {c} : conns[d].pc = "new"

----------------------------------------------------------------------------
(* SIGINT / SIGTERM.  Two listeners are registered on each signal:          *)
(* gracefulShutdown of gameSessionManager.ts (at import) and shutdown of    *)
(* the server entry.  Node calls both, in that order, each up to its first  *)
(* await; their continuations are separate actions.                         *)

ShutFrames == { Msg("move", "right"), Msg("attack", None) }

\* a replaceOne in flight when client.close() is called either completes or is
\* cut by the closing of the connection pool
DrainOutcomes == IF proc.store = "open" THEN StoreOutcomes ELSE {TRUE, FALSE}

\* the signal: gracefulShutdown runs unregisterSession(id) for every session up
\* to its replaceOne, then shutdown calls closeDatabase up to client.close()
Signal ==
    /\ ~proc.signalled
    /\ IF sess # <<>> /\ cache # <<>>
       THEN /\ proc' = [proc EXCEPT !.signalled = TRUE, !.store = "closing",
                                    !.drain = "replacing", !.drainDoc = cache]
            /\ sess' = sess
       ELSE /\ proc' = [proc EXCEPT !.signalled = TRUE, !.store = "closing",
                                    !.drain = "settled"]
            /\ sess' = <<>>
    /\ UNCHANGED <<game, turn, turns, cache, db, board, conns, sent, budget>>

\* gracefulShutdown's unregisterSession resumes after its replaceOne: a failure
\* is logged, both map entries are deleted, and allSettled settles
DrainWrite ==
    /\ proc.drain = "replacing"
    /\ ~proc.exited
    /\ \E ok \in DrainOutcomes :
          /\ db' = IF ok THEN proc.drainDoc ELSE db
          /\ proc' = [proc EXCEPT !.drain = "settled", !.written = ok]
    /\ cache' = <<>>
    /\ sess' = <<>>
    /\ UNCHANGED <<game, turn, turns, board, conns, sent, budget>>

\* gracefulShutdown after Promise.allSettled: process.exit(0)
DrainExit ==
    /\ proc.drain = "settled"
    /\ ~proc.exited
    /\ proc' = [proc EXCEPT !.exited = TRUE]
    /\ UNCHANGED <<game, turn, turns, sess, cache, db, board, conns, sent, budget>>

\* client.close() resolves once no operation is in flight; closeDatabase clears
\* client and db, and shutdown goes on to await fastify.close()
StoreClosed ==
    /\ proc.store = "closing"
    /\ proc.drain # "replacing"
    /\ ~proc.exited
    /\ proc' = [proc EXCEPT !.store = "closed", !.server = "closing"]
    /\ UNCHANGED <<game, turn, turns, sess, cache, db, board, conns, sent, budget>>

\* fastify.close() resolves: process.exit(0)
ServerClosed ==
    /\ proc.server = "closing"
    /\ ~proc.exited
    /\ proc' = [proc EXCEPT !.server = "closed", !.exited = TRUE]
    /\ UNCHANGED <<game, turn, turns, sess, cache, db, board, conns, sent, budget>>

ShutInit == ConnStart(MaxMessages, 0)

\* play goes on until the signal; handlers already suspended resume until exit
ShutNext ==
    \/ ~proc.signalled /\ \E c \in Sockets : Connect(c)
    \/ ~proc.signalled /\ \E c \in Sockets : Found(c)
    \/ ~proc.signalled /\ \E c \in Sockets : \E frame \in ShutFrames : Receive(c, frame)
    \/ ~proc.exited /\ \E c \in Sockets : SaveDone(c)
    \/ ~proc.exited /\ \E c \in Sockets : InsertDone(c)
    \/ ~proc.signalled /\ \E c \in Sockets : Close(c)
    \/ ~proc.exited /\ \E c \in Sockets : UnregDone(c)
    \/ Signal
    \/ DrainWrite
    \/ DrainExit
    \/ StoreClosed
    \/ ServerClosed

ShutSpec == ShutInit /\ [][ShutNext]_vars

\* C20: on SIGINT or SIGTERM, every session still in the cache has its state
\* written to the durable store before the store connection is closed and
\* before the process exits.
C20_DrainBeforeCloseAndExit ==
    ((proc.store = "closed" \/ proc.exited) /\ proc.drainDoc # <<>>)
    => db = proc.drainDoc

----------------------------------------------------------------------------
(* mapGenerator.ts: the room loop of generateMap as a state machine.  Each  *)
(* step is one iteration that accepts a room; an iteration whose room is    *)
(* rejected changes nothing.  The loop may end with any number of rooms     *)
(* from 1 up to numRooms, since it gives up after 100 iterations.           *)

MaxRooms == 3

\* rooms the random calls of one iteration can return, near the borders and in
\* the middle of the map
CandidateRooms ==
    { Room(x, y, w, 5) : x \in {1, 14, 30}, y \in {1, 9, 16}, w \in {4, 7} }

MapFloors == {1, WIN_FLOOR}

\* seeding draws for a layout: every enemy and item in a corner of a room
MapDraws(accepted, floor) ==
    LET rooms == SortRooms(accepted)
        far == rooms[Len(rooms)]
    IN  [enemies |-> IF Len(rooms) > 1
                     THEN [i \in 1..numEnemiesFor(floor, 3) |->
                             ED(Len(rooms), far.x, far.y, "rat", "normal", "flee")]
                     ELSE <<>>,
         potions |-> << ID(1, rooms[1].x, rooms[1].y, None) >>,
         equipment |-> << ID(1, rooms[1].x, rooms[1].y, "rusty_sword") >>]

MapInit ==
    /\ \E floor \in MapFloors :
          game = [phase |-> "rooms", floor |-> floor, rooms |-> <<>>, gen |-> <<>>]
    /\ turn = <<>>
    /\ turns = 0
    /\ ConnIdle

\* one iteration of the room loop that pushes its room
PlaceRoom(room) ==
    /\ game.phase = "rooms"
    /\ Len(game.rooms) < MaxRooms
    /\ ValidLayout(Append(game.rooms, room))
    /\ game' = [game EXCEPT !.rooms = Append(@, room)]
    /\ UNCHANGED <<turn, turns>>
    /\ UNCHANGED connVars

\* the loop ends: carving, sort, corridors, stairs, start, seeding
Generate ==
    /\ game.phase = "rooms"
    /\ game.rooms # <<>>
    /\ Len(game.rooms) > 1 => ValidDraws(game.rooms, game.floor, "dwarf",
                                         MapDraws(game.rooms, game.floor))
    /\ game' = [game EXCEPT !.phase = "done",
                            !.gen = << generateMap(game.floor, "dwarf", game.rooms,
                                                   MapDraws(game.rooms, game.floor)) >>]
    /\ UNCHANGED <<turn, turns>>
    /\ UNCHANGED connVars

MapNext ==
    \/ \E room \in CandidateRooms : PlaceRoom(room)
    \/ Generate

MapSpec == MapInit /\ [][MapNext]_vars

\* the cells of the set cells that are 4-neighbours of a frontier cell and new
Neighbours(cells, frontier, seen) ==
    ({ <<c[1] + d[1], c[2] + d[2]>> : c \in frontier,
                                      d \in { <<0, -1>>, <<0, 1>>, <<-1, 0>>, <<1, 0>> } }
     \cap cells) \ seen

RECURSIVE Flood(_, _, _)
RECURSIVE FloodStep(_, _, _)
\* the cells reachable from the frontier by 4-connected steps inside cells
Flood(cells, frontier, seen) ==
    IF frontier = {} THEN seen ELSE FloodStep(cells, Neighbours(cells, frontier, seen), seen)

FloodStep(cells, next, seen) == Flood(cells, next, seen \cup next)

NonWall(map) == map.open \cup {map.stairs}

\* C21: for every floor and every outcome of the room placement, the map
\* returned by generateMap has a 4-connected path of non-wall cells from
\* playerStart to the stairs cell.
C21_StairsReachableFromStart ==
    game.phase = "done"
    => /\ game.gen[1].playerStart \in NonWall(game.gen[1].map)
       /\ game.gen[1].map.stairs \in
             Flood(NonWall(game.gen[1].map), {game.gen[1].playerStart},
                   {game.gen[1].playerStart})

\* three rooms, with the start and the stairs in different columns and rows
C21_Witness ==
    /\ game.phase = "done"
    /\ Len(game.rooms) = 3
    /\ game.gen[1].playerStart[1] # game.gen[1].map.stairs[1]
    /\ game.gen[1].playerStart[2] # game.gen[1].map.stairs[2]

----------------------------------------------------------------------------
(* Further properties of the turn engine (specification Spec)               *)

\* C22: within one floor the fog is monotone: a cell revealed after some turn
\* is revealed after every later move or attack turn, until a descend replaces
\* the floor.
C22_FogMonotoneWithinFloor ==
    [][ game'.floor = game.floor => game.fog \subseteq game'.fog ]_vars

\* a turn on the same floor revealed new cells and kept the old ones
C22_Witness ==
    /\ turns >= 2
    /\ turn.pre.floor = game.floor
    /\ turn.pre.fog # {}
    /\ turn.pre.fog # game.fog
    /\ turn.pre.fog \subseteq game.fog

\* C23: in every reachable state at a turn boundary, status = dead if and only
\* if player.hp <= 0.
C23_DeadIffNoHp == (game.status = "dead") <=> (game.player.hp <= 0)

\* a turn in which the player was alive before and is dead after
C23_Witness ==
    /\ turns >= 1
    /\ turn.pre.player.hp > 0
    /\ game.player.hp <= 0
    /\ game.status = "dead"

\* C24: in every reachable state, status = won holds exactly when a descend
\* has brought floor to 20 (the state is won if and only if its floor is 20,
\* and the turn that produced it is a move that descended from floor 19), and
\* floor stays within [1, 20].
C24_WonIffFloorTwenty ==
    /\ game.floor \in 1..20
    /\ (game.status = "won") <=> (game.floor = 20)
    /\ game.status = "won"
       => /\ turn.kind = "move"
          /\ turn.pre.floor = 19
          /\ EventsOf("floor_descended") # <<>>

\* the descend from floor 19 has been played
C24_Witness ==
    /\ game.status = "won"
    /\ game.floor = WIN_FLOOR
    /\ turn.pre.floor = WIN_FLOOR - 1
    /\ turn.pre.status = "active"

----------------------------------------------------------------------------
(* gameLogic.ts: grantXp on its own.  The player is any character at a low  *)
(* level with any amount of xp below the threshold; each step is the XP     *)
(* grant of one kill.                                                       *)

MaxLevel == 3
MaxKills == 2

VariantNames == {"normal", "elite", "champion"}

\* a player of the given level: the stats of the character plus the gains of
\* the levels reached, with xp below the threshold of the level
PlayerAtLevel(character, level, xp) ==
    LET g == createNewGame(character, Layout, DrawsD)
    IN  [g EXCEPT !.player.level = level,
                  !.player.xp = xp,
                  !.player.xpToNextLevel = getXpToNextLevel(level),
                  !.player.maxHp = @ + LEVEL_HP_GAIN * (level - 1),
                  !.player.attack = @ + (level - 1),
                  !.player.defense = @ + (level - 1)]

XpInit ==
    /\ \E character \in Characters, level \in 1..MaxLevel :
          \E xp \in {0, getXpToNextLevel(level) \div 2, getXpToNextLevel(level) - 1} :
              game = PlayerAtLevel(character, level, xp)
    /\ turn = NoTurn(game)
    /\ turns = 0
    /\ ConnIdle

\* the XP grant for a killed enemy of the given type and variant
Kill(type, variant) ==
    /\ turns < MaxKills
    /\ TurnTaken("kill", None,
                 [g |-> grantXp(game, createEnemy(0, type, 0, 0, variant, "aggressive")).g,
                  events |-> grantXp(game, createEnemy(0, type, 0, 0, variant,
                                                       "aggressive")).events,
                  deltas |-> <<>>, log |-> <<>>])
    /\ UNCHANGED connVars

XpNext == \E type \in DOMAIN ENEMY_STATS, variant \in VariantNames : Kill(type, variant)

XpSpec == XpInit /\ [][XpNext]_vars

\* C25: the XP grant of every kill terminates, even when one kill is worth
\* several levels, and leaves xp < xpToNextLevel with xpToNextLevel = level * 50
\* (one level_up event per level gained); hence xp < xpToNextLevel holds at
\* every turn boundary.
C25_XpBelowThreshold ==
    /\ game.player.xp >= 0
    /\ game.player.xp < game.player.xpToNextLevel
    /\ game.player.xpToNextLevel = game.player.level * 50
    /\ Len(EventsOf("level_up")) = game.player.level - turn.pre.player.level

\* one kill was worth several levels
C25_Witness ==
    /\ turn.kind = "kill"
    /\ game.player.level >= turn.pre.player.level + 2
    /\ Len(EventsOf("level_up")) >= 2

\* the latest turn is a move whose target cell is outside the map or a wall
IsBlockedMove ==
    /\ IsMoveTurn
    /\ \/ ~InBounds(turn.pre.map, MoveTarget(turn.pre, turn.dir))
       \/ TileAt(turn.pre.map, MoveTarget(turn.pre, turn.dir)) = "wall"

\* C26: a move whose target cell is outside the map or is a wall emits zero
\* events and does not advance the turn: the player, the fog, the items and
\* every enemy are unchanged, and no enemy moves or attacks.
C26_BlockedMoveChangesNothing ==
    IsBlockedMove
    => /\ turn.events = <<>>
       /\ turn.log = <<>>
       /\ turn.deltas = <<>>
       /\ game = turn.pre

\* a move into a wall with a live enemy on the floor
C26_Witness ==
    /\ IsBlockedMove
    /\ turn.pre.status = "active"
    /\ LiveEnemies(turn.pre) # {}
    /\ turn.events = <<>>

\* the latest turn is a move in which the player entered the stairs cell
EnteredStairs ==
    /\ IsMoveTurn
    /\ turn.pre.status = "active"
    /\ TileAt(turn.pre.map, MoveTarget(turn.pre, turn.dir)) = "stairs"
    /\ enemyAtTarget(turn.pre, MoveTarget(turn.pre, turn.dir)) = 0

\* C27: on a turn in which the player's move enters the stairs cell, the
\* descend short-circuits the rest of the turn: no enemy of the old or of the
\* new floor moves or attacks (the enemies of the new floor are as generated),
\* and the turn's events contain no player_damaged and no player_died.
C27_DescendSkipsEnemyPhase ==
    EnteredStairs
    => /\ game.floor = turn.pre.floor + 1
       /\ turn.log = <<>>
       /\ EventsOf("player_damaged") = <<>>
       /\ EventsOf("player_died") = <<>>
       /\ game.player.hp >= turn.pre.player.hp
       /\ \E dr \in DrawsOfMove(turn.pre, turn.dir) :
             game.enemies = generateMap(game.floor, game.player.character, Layout, dr).enemies

\* a descend from a floor with live enemies to a floor with enemies
C27_Witness ==
    /\ EnteredStairs
    /\ LiveEnemies(turn.pre) # {}
    /\ LiveEnemies(game) # {}
    /\ game.status = "active"

\* position of a delta kind in the enumeration of the delta engine
DeltaRank(type) ==
    CASE type = "player_pos" -> 1
      [] type = "player_stats" -> 2
      [] type = "player_equipment" -> 3
      [] type = "score" -> 4
      [] type = "fog_reveal" -> 5
      [] type = "tiles_reveal" -> 6
      [] type \in {"enemy_visible", "enemy_killed", "enemy_hidden",
                   "enemy_moved", "enemy_damaged"} -> 7
      [] type \in {"item_visible", "item_removed"} -> 8
      [] type = "game_status" -> 9
      [] type = "event" -> 10
      [] OTHER -> 0

\* the kinds of which one turn may carry several deltas
RepeatedRanks == {7, 8, 10}

\* C28: in the delta list of a move turn the kinds other than new_floor appear
\* in the enumerated order (player_pos, player_stats, player_equipment, score,
\* fog_reveal, tiles_reveal, enemy deltas, item deltas, game_status, event),
\* every fog_reveal is directly followed by the tiles_reveal of the same cells
\* and every tiles_reveal directly preceded by its fog_reveal, and on a descend
\* there is one new_floor delta and no delta other than an event follows it.
C28_DeltaWireOrder ==
    IsMoveTurn
    => LET d == turn.deltas
           n == Len(d)
       IN  /\ \A i \in 1..n : d[i].type = "new_floor" \/ DeltaRank(d[i].type) # 0
           /\ \A i, j \in 1..n :
                (i < j /\ d[i].type # "new_floor" /\ d[j].type # "new_floor")
                => \/ DeltaRank(d[i].type) < DeltaRank(d[j].type)
                   \/ /\ DeltaRank(d[i].type) = DeltaRank(d[j].type)
                      /\ DeltaRank(d[i].type) \in RepeatedRanks
           /\ \A i \in 1..n :
                d[i].type = "fog_reveal"
                => /\ i < n
                   /\ d[i + 1].type = "tiles_reveal"
                   /\ {<<t[1], t[2]>> : t \in d[i + 1].tiles} = d[i].cells
                   /\ Cardinality(d[i + 1].tiles) = Cardinality(d[i].cells)
           /\ \A i \in 1..n :
                d[i].type = "tiles_reveal" => i > 1 /\ d[i - 1].type = "fog_reveal"
           /\ EventsOf("floor_descended") # <<>>
              => /\ Len(DeltasOf({"new_floor"})) = 1
                 /\ \A i, j \in 1..n :
                      (i < j /\ d[i].type = "new_floor") => d[j].type = "event"

\* a move turn whose list carries a fog_reveal with its tiles_reveal, an
\* enemy delta and an event
C28_Witness ==
    /\ IsMoveTurn
    /\ DeltasOf({"fog_reveal"}) # <<>>
    /\ DeltasOf({"tiles_reveal"}) # <<>>
    /\ \E i \in 1..Len(turn.deltas) : DeltaRank(turn.deltas[i].type) = 7
    /\ DeltasOf({"event"}) # <<>>

\* a descend turn whose list carries the position, the score, events and the
\* new_floor delta
C28_WitnessDescend ==
    /\ IsMoveTurn
    /\ EventsOf("floor_descended") # <<>>
    /\ DeltasOf({"new_floor"}) # <<>>
    /\ DeltasOf({"player_pos"}) # <<>>
    /\ DeltasOf({"score"}) # <<>>
    /\ DeltasOf({"event"}) # <<>>

\* a move turn without descent whose list carries enemy deltas, item deltas and events
C28_WitnessKinds ==
    /\ IsMoveTurn
    /\ EventsOf("floor_descended") = <<>>
    /\ \E i \in 1..Len(turn.deltas) : DeltaRank(turn.deltas[i].type) = 7
    /\ \E i \in 1..Len(turn.deltas) : DeltaRank(turn.deltas[i].type) = 8
    /\ DeltasOf({"event"}) # <<>>

----------------------------------------------------------------------------
(* Ownership of a game by its registered connection (specification ConnSpec). *)

\* a later connection has registered for the game since socket c did
Superseded(c) ==
    /\ conns[c].order > 0
    /\ \E d \in Sockets : conns[d].order > conns[c].order

\* C29: the game's state is changed only by intents of the connection that is
\* currently registered for it: a turn taken for a move or attack message of
\* a superseded connection leaves the cached state and the game as they were.
C29_SupersededConnectionChangesNothing ==
    [][ \A c \in Sockets :
          (TurnBy(c) /\ Superseded(c)) => (cache' = cache /\ game' = game) ]_vars

----------------------------------------------------------------------------
(* The client hook (useGameSocket): sendMove and sendAttack count an intent  *)
(* in pendingMessagesRef and put it on the socket; ws.onmessage lowers the   *)
(* counter for an update frame and for no other frame.  The frame reaches    *)
(* the server's message handler in the step that sends it; the frames of     *)
(* sent[c] are read by the client one at a time, in order.                   *)

MAX_PENDING_MESSAGES == 3

MaxIntents == 4

\* the socket of the client that plays; the other socket belongs to a second
\* tab on the same game, which connects and leaves and sends nothing
Player == 1

\* what sendMove and sendAttack put on the socket
ClientIntents == { Msg("move", "right"), Msg("move", "left") }

\* pendingMessagesRef after ws.onmessage has run for this frame
onmessage(c, frame) ==
    IF frame.type = "update" /\ conns[c].pendingMessages > 0
    THEN conns[c].pendingMessages - 1
    ELSE conns[c].pendingMessages

\* sendMove / sendAttack past the throttle: the cap, the readyState test, the
\* increment and ws.send, then socket.on('message') on the server
ClientSend(c, frame) ==
    LET cs == [conns[c] EXCEPT !.pendingMessages = @ + 1]
        q == Append(cs.queue, frame)
    IN  /\ conns[c].pc = "open"
        /\ conns[c].pendingMessages < MAX_PENDING_MESSAGES
        /\ budget.messages > 0
        /\ budget' = [budget EXCEPT !.messages = budget.messages - 1]
        /\ IF QueueFull(c)
           THEN /\ conns' = [conns EXCEPT ![c] = cs]
                /\ UNCHANGED <<game, turn, turns, sess, cache, db, board, sent, proc>>
           ELSE IF Busy(c)
           THEN /\ conns' = [conns EXCEPT ![c] = [cs EXCEPT !.queue = q]]
                /\ UNCHANGED <<game, turn, turns, sess, cache, db, board, sent, proc>>
           ELSE Handle(c, [cs EXCEPT !.queue = Tail(q), !.processingMessage = TRUE,
                                     !.inflight = @ + 1], Head(q))

\* ws.onmessage for the next frame the server has sent on this socket
ClientReceive(c) ==
    /\ conns[c].read < Len(sent[c])
    /\ conns' = [conns EXCEPT
                   ![c].pendingMessages = onmessage(c, sent[c][conns[c].read + 1]),
                   ![c].read = @ + 1]
    /\ UNCHANGED <<game, turn, turns, sess, cache, db, board, sent, budget, proc>>

ClientInit == ConnStart(MaxIntents, MaxFailures)

ClientNext ==
    \/ \E c \in Sockets : Connect(c)
    \/ \E c \in Sockets : Found(c)
    \/ \E frame \in ClientIntents : ClientSend(Player, frame)
    \/ ClientReceive(Player)
    \/ \E c \in Sockets : Immediate(c)
    \/ \E c \in Sockets : SaveDone(c)
    \/ \E c \in Sockets : InsertDone(c)
    \/ \E c \in Sockets : Close(c)
    \/ \E c \in Sockets : UnregDone(c)

\* the event loop runs every callback that is ready (a resolved findOne or
\* write, a queued setImmediate) and an open socket delivers what was sent on
\* it; nothing obliges a client to connect, to send or to leave
ClientFairness ==
    \A c \in Sockets :
        /\ WF_vars(Found(c))
        /\ WF_vars(Immediate(c))
        /\ WF_vars(SaveDone(c))
        /\ WF_vars(InsertDone(c))
        /\ WF_vars(UnregDone(c))
        /\ WF_vars(ClientReceive(Player))

ClientSpec == ClientInit /\ [][ClientNext]_vars /\ ClientFairness

\* the server holds no message of socket c and is handling none, and the
\* client has read every frame sent on c: no acknowledgement is on its way
Quiet(c) ==
    /\ conns[c].pc = "open"
    /\ conns[c].queue = <<>>
    /\ ~conns[c].processingMessage
    /\ conns[c].await = "none"
    /\ conns[c].read = Len(sent[c])

\* C30: every move or attack the client has sent on an open connection is
\* acknowledged: once the server has handled all of them and the client has
\* read every answer, whether updates or error frames, the counter of
\* unacknowledged intents is back at 0, so that the cap of 3 in flight cannot
\* hold back the client's next intent for ever.
C30_IntentsAcknowledged ==
    Quiet(Player) => conns[Player].pendingMessages = 0

\* the client has reached the cap with nothing on its way: it may still send
\* (budget is left, the game is active, the socket open) and never will
C30_Blocked ==
    /\ Quiet(Player)
    /\ conns[Player].pendingMessages = MAX_PENDING_MESSAGES
    /\ budget.messages > 0
    /\ game.status = "active"

----------------------------------------------------------------------------
(* Further properties of generateMap (specification MapSpec).                *)

\* C31: for every outcome of the room placement, the stairs and playerStart
\* are assigned only when at least two rooms were accepted, so that
\* playerStart is a floor cell and is not the stairs cell.
C31_StartOnFloorAwayFromStairs ==
    game.phase = "done"
    => /\ Len(game.rooms) >= 2
       /\ TileAt(game.gen[1].map, game.gen[1].playerStart) = "floor"
       /\ game.gen[1].playerStart # game.gen[1].map.stairs

----------------------------------------------------------------------------
(* Enemy AI on given states (specification ArenaSpec): processMove and       *)
(* processAttack applied to states built cell by cell, as the states of the  *)
(* engine's own tests are: a player, enemies with given behaviours, and a    *)
(* map whose open cells are drawn from a bounded family.                     *)

MaxArenaTurns == 2

\* a game on floor 6 (where orcs spawn) with the given open cells, player cell
\* and enemies, no items, the stairs out of reach
Arena(open, player, enemies) ==
    LET g == createNewGame("dwarf", Layout, DrawsD)
    IN  updateFog([g EXCEPT !.floor = 6,
                            !.map.open = open,
                            !.map.stairs = <<38, 22>>,
                            !.player.x = player[1],
                            !.player.y = player[2],
                            !.enemies = enemies,
                            !.items = <<>>,
                            !.fog = initializeFog])

\* the floor both the orc's row and the player's step down need
ChaseCorridor == { <<3, 5>>, <<4, 5>>, <<5, 5>>, <<5, 6>> }

\* cells around the corridor that may be floor or wall
ChaseSurroundings == { <<3, 4>>, <<4, 4>>, <<5, 4>>, <<3, 6>>, <<4, 6>>, <<6, 5>>, <<6, 6>> }

\* an aggressive orc at (3,5) facing the player at (5,5) along the row, having
\* seen the player there before or not
ChaseArenas ==
    { Arena(ChaseCorridor \cup extra, <<5, 5>>,
            << [createEnemy(601, "orc", 3, 5, "normal", "aggressive")
                  EXCEPT !.lastSeenPlayer = seen] >>) :
        extra \in SUBSET ChaseSurroundings, seen \in {NoCell, <<5, 5>>} }

MaxCrowd == 8

\* an open room with the player in the middle
CrowdRoom == { <<x, y>> : x \in 2..10, y \in 2..8 }

\* where the enemies of a crowd stand, nearest to the player first
CrowdCells ==
    << <<6, 2>>, <<6, 8>>, <<2, 5>>, <<10, 5>>, <<3, 3>>, <<9, 7>>, <<9, 3>>, <<3, 7>>,
       <<2, 3>>, <<10, 7>> >>

\* the kinds of enemy floor 6 can spawn that chase a player they see
CrowdKinds ==
    { [type |-> "skeleton", behavior |-> "aggressive"],
      [type |-> "skeleton", behavior |-> "patrol"],
      [type |-> "rat", behavior |-> "flee"] }

\* n enemies of one kind around the player at (6,5), listed nearest first or
\* farthest first, in the open room or in the room with two pillars
CrowdArenas ==
    { Arena(CrowdRoom \ pillars, <<6, 5>>,
            [i \in 1..n |->
               LET c == CrowdCells[IF nearFirst THEN i ELSE n + 1 - i]
               IN  createEnemy(600 + i, kind.type, c[1], c[2], "normal", kind.behavior)]) :
        n \in 5..MaxCrowd, kind \in CrowdKinds, nearFirst \in BOOLEAN,
        pillars \in { {}, {<<6, 4>>, <<4, 5>>} } }

ArenaInit ==
    /\ game \in ChaseArenas \cup CrowdArenas
    /\ turn = NoTurn(game)
    /\ turns = 0
    /\ ConnIdle

ArenaMove(direction) ==
    /\ game.status = "active"
    /\ turns < MaxArenaTurns
    /\ TurnTaken("move", direction, processMoveWithDeltas(game, direction, Layout, DrawsB))
    /\ UNCHANGED connVars

ArenaAttack ==
    /\ game.status = "active"
    /\ turns < MaxArenaTurns
    /\ TurnTaken("attack", None, processAttackWithDeltas(game))
    /\ UNCHANGED connVars

ArenaNext ==
    \/ \E direction \in Directions : ArenaMove(direction)
    \/ ArenaAttack

ArenaSpec == ArenaInit /\ [][ArenaNext]_vars

\* the first turn of a chase arena was the intent move down
ChaseDown ==
    /\ turns = 1
    /\ IsMoveTurn
    /\ turn.dir = "down"
    /\ turn.pre \in ChaseArenas

\* C32: with an aggressive orc at (3,5), the player at (5,5), floor between
\* them and the intent move down, after the turn the player is at (5,6), the
\* orc is at (4,5), and the events contain player_moved and no player_damaged.
C32_OrcStepsAlongTheRow ==
    ChaseDown
    => /\ PlayerCell(game) = <<5, 6>>
       /\ EnemyCell(game.enemies[1]) = <<4, 5>>
       /\ EventsOf("player_moved") # <<>>
       /\ EventsOf("player_damaged") = <<>>

\* the cells below the orc and below the cell in front of it are both floor:
\* a path of the same length as the one along the row starts with a step down
ChaseOpenBelow == {<<3, 6>>, <<4, 6>>} \subseteq turn.pre.map.open

\* C32, amended: in that situation the player is at (5,6) after the turn, the
\* events contain player_moved and no player_damaged, and the orc has taken
\* the first step of the shortest path found with the neighbour order up,
\* down, left, right: it is at (4,5) when (3,6) and (4,6) are not both floor
\* (the row is a corridor), and at (3,6) when they are.
C32_OrcStepsOnShortestPath ==
    ChaseDown
    => /\ PlayerCell(game) = <<5, 6>>
       /\ EventsOf("player_moved") # <<>>
       /\ EventsOf("player_damaged") = <<>>
       /\ EnemyCell(game.enemies[1]) = IF ChaseOpenBelow THEN <<3, 6>> ELSE <<4, 5>>

\* the corridor case: walls on both sides of the row, the orc has advanced to (4,5)
C32_Witness ==
    /\ ChaseDown
    /\ turn.pre.map.open = ChaseCorridor
    /\ EnemyCell(game.enemies[1]) = <<4, 5>>
    /\ PlayerCell(game) = <<5, 6>>

----------------------------------------------------------------------------
(* findPathToTarget on given inputs (specification PathSpec): the state is   *)
(* one of the arenas, the start the cell of one of its enemies, and turn     *)
(* records the call and what it returned.                                    *)

\* the targets tried: the player, the first enemy, and cells that are floor in
\* some arenas and wall in others
PathTargets(g) ==
    { PlayerCell(g), EnemyCell(g.enemies[1]), <<5, 6>>, <<6, 4>>, <<2, 2>>, <<10, 8>> }

PathDistances == { 1, 3, DEFAULT_MAX_DISTANCE }

PathInit ==
    /\ game \in ChaseArenas \cup CrowdArenas
    /\ turn = NoTurn(game)
    /\ turns = 0
    /\ ConnIdle

\* findPathToTarget(state, startX, startY, targetX, targetY, maxDistance)
FindPath(start, target, maxDistance) ==
    /\ turns = 0
    /\ turn' = [kind |-> "path", start |-> start, target |-> target,
                maxDistance |-> maxDistance,
                step |-> findPathToTarget(game, start[1], start[2], target[1], target[2],
                                          maxDistance),
                iterations |-> IF start = target THEN 0
                               ELSE BfsIterations(game, target, maxDistance,
                                                  << [x |-> start[1], y |-> start[2],
                                                      path |-> <<>>] >>,
                                                  {start}, 0)]
    /\ turns' = 1
    /\ game' = game
    /\ UNCHANGED connVars

\* moveEnemies(state), r being what it returns and leaves in state
EnemyPhaseDone(r) ==
    /\ turn' = [kind |-> "enemies", pre |-> game, count |-> r.count, log |-> r.log,
                events |-> r.events]
    /\ game' = r.g

EnemyPhase ==
    /\ game.status = "active"
    /\ turn.kind # "path"
    /\ turns < MaxArenaTurns
    /\ EnemyPhaseDone(moveEnemies(game))
    /\ turns' = turns + 1
    /\ UNCHANGED connVars

PathNext ==
    \/ \E i \in 1..MaxCrowd, maxDistance \in PathDistances :
          /\ i <= Len(game.enemies)
          /\ \E target \in PathTargets(game) :
                FindPath(EnemyCell(game.enemies[i]), target, maxDistance)
    \/ EnemyPhase

PathSpec == PathInit /\ [][PathNext]_vars

\* cells a path may pass through: in bounds, not wall, no live enemy, not the player
Traversable(g) ==
    { c \in NonWall(g.map) : InBounds(g.map, c) /\ ~LiveEnemyAt(g, c) /\ c # PlayerCell(g) }

\* length of a shortest path from the frontier (k steps from the start) to the
\* target through traversable cells, the target itself only having to be
\* inside the map and not a wall; 0 when there is none
RECURSIVE PathLength(_, _, _, _, _)
PathLengthNext(g, next, seen, target, k) ==
    IF target \in next THEN k + 1
    ELSE IF next \cap Traversable(g) = {} THEN 0
    ELSE PathLength(g, next \cap Traversable(g), seen \cup next, target, k + 1)

PathLength(g, frontier, seen, target, k) ==
    PathLengthNext(g, Neighbours({c \in NonWall(g.map) : InBounds(g.map, c)}, frontier, seen),
                   seen, target, k)

ShortestPath(g, from, target) == PathLength(g, {from}, {from}, target, 0)

\* what the claim says of a call that returned step, len being the length of a
\* shortest admissible path from start to target (0: none)
RightStep(g, start, target, maxDistance, step, len) ==
    IF start = target \/ len = 0 \/ len > maxDistance
    THEN step = NoCell
    ELSE /\ step # NoCell
         /\ Abs(step[1] - start[1]) + Abs(step[2] - start[2]) = 1
         /\ IF len = 1 THEN step = target
            ELSE /\ step \in Traversable(g)
                 /\ ShortestPath(g, step, target) = len - 1

\* C33: findPathToTarget returns a cell only if it is a 4-neighbour of the
\* start and the first cell of a shortest path to the target that stays in
\* bounds, avoids walls, live enemies and the player's cell (the target
\* excepted) and is at most maxDistance long; it returns none when there is
\* no such path; and it returns within MAP_WIDTH * MAP_HEIGHT iterations.
C33_FirstStepOfShortestPath ==
    turn.kind = "path"
    => /\ RightStep(game, turn.start, turn.target, turn.maxDistance, turn.step,
                    ShortestPath(game, turn.start, turn.target))
       /\ turn.iterations <= MAP_WIDTH * MAP_HEIGHT

\* a call that had to go round an enemy or a wall: the step returned is not
\* the one that lowers the Manhattan distance along the row or column
C33_Witness ==
    /\ turn.kind = "path"
    /\ turn.step # NoCell
    /\ turn.target = PlayerCell(game)
    /\ ShortestPath(game, turn.start, turn.target)
         > Abs(turn.start[1] - turn.target[1]) + Abs(turn.start[2] - turn.target[2])

\* a call that returned none although the target can be reached: the path is
\* longer than maxDistance
C33_WitnessTooFar ==
    /\ turn.kind = "path"
    /\ turn.step = NoCell
    /\ ShortestPath(game, turn.start, turn.target) > turn.maxDistance

----------------------------------------------------------------------------
(* The pathfinding budget of moveEnemies (specification PathSpec)            *)

\* enemy i of g reaches the pathfinder call of its branch when its turn comes:
\* alive, in detection range, not adjacent to the player, and chasing (it sees
\* the player or, unless it patrols, remembers where it saw the player)
NeedsPath(g, i) ==
    LET e == g.enemies[i]
        canSee == hasLineOfSight(g, e.x, e.y, g.player.x, g.player.y)
    IN  /\ e.hp > 0
        /\ ManhattanToPlayer(g, i) <= VISION_RADIUS + 2
        /\ ~isAdjacentToPlayer(e, g.player.x, g.player.y)
        /\ CASE e.behavior = "aggressive" -> canSee \/ e.lastSeenPlayer # NoCell
             [] e.behavior = "flee" ->
                  /\ ~(10 * e.hp < 3 * e.maxHp /\ canSee)
                  /\ canSee \/ e.lastSeenPlayer # NoCell
             [] e.behavior = "patrol" -> canSee
             [] OTHER -> FALSE

\* the indices of the enemies of g that need the pathfinder, nearest first
RECURSIVE Needers(_, _, _)
Needers(g, order, k) ==
    IF k > Len(order) THEN <<>>
    ELSE (IF NeedsPath(g, order[k]) THEN <<order[k]>> ELSE <<>>) \o Needers(g, order, k + 1)

EnemyIndex(g, id) == CHOOSE i \in 1..Len(g.enemies) : g.enemies[i].id = id

\* the three parts of the claim for an enemy phase from pre to post
BudgetKept(pre, post, count, log, needers) ==
    /\ count <= 5
    /\ post.status = "active" => count = Min(5, Len(needers))
    /\ Cardinality({ k \in 1..Len(log) : log[k].act = "move" }) <= 5
    /\ \A j, k \in 1..Len(log) :
          j < k => ManhattanToPlayer(pre, EnemyIndex(pre, log[j].id))
                     <= ManhattanToPlayer(pre, EnemyIndex(pre, log[k].id))
    /\ \A k \in 1..Len(needers) :
          k > 5 => EnemyCell(post.enemies[needers[k]]) = EnemyCell(pre.enemies[needers[k]])

\* C34: in every turn the enemy AI invokes the pathfinder at most 5 times,
\* takes the enemies in ascending Manhattan distance to the player, and an
\* enemy that needs the pathfinder after the budget is spent does not move.
C34_PathfindingBudget ==
    turn.kind = "enemies"
    => BudgetKept(turn.pre, game, turn.count, turn.log,
                  Needers(turn.pre, activeEnemies(turn.pre, Len(turn.pre.enemies)), 1))

\* an enemy phase with more than five chasers, listed farthest first: five of
\* them have stepped and the budget is spent
C34_Witness ==
    /\ turn.kind = "enemies"
    /\ turn.count = 5
    /\ Len(Needers(turn.pre, activeEnemies(turn.pre, Len(turn.pre.enemies)), 1)) > 5
    /\ Cardinality({ k \in 1..Len(turn.log) : turn.log[k].act = "move" }) = 5
    /\ ManhattanToPlayer(turn.pre, 1) > ManhattanToPlayer(turn.pre, Len(turn.pre.enemies))

----------------------------------------------------------------------------
(* The killer recorded on a death (specification ConnSpec)                   *)

\* the player_died events a handler holds between its turn and its reply
DiedEvents(c) ==
    IF conns[c].local = <<>> THEN <<>>
    ELSE SelectSeq(conns[c].local[1].events, LAMBDA e : e.type = "player_died")

\* C35: when an enemy attack brings the player's hp to 0 or below, the
\* player_died event names the killing enemy's type and variant, and the
\* leaderboard record of that death carries that enemy's type and variant in
\* killedByType and killedByVariant.
C35_DeathNamesKiller ==
    /\ \A c \in Sockets :
          \A k \in 1..Len(DiedEvents(c)) :
             /\ DataField(DiedEvents(c)[k], "killedBy") \in DOMAIN ENEMY_STATS
             /\ DataField(DiedEvents(c)[k], "killedByVariant") \in DOMAIN VARIANT_MULTIPLIERS
    /\ \A k \in 1..Len(board) :
          board[k].status = "dead"
          => /\ board[k].killedByType = board[k].killedBy
             /\ board[k].killedByType \in DOMAIN ENEMY_STATS
             /\ board[k].killedByVariant \in DOMAIN VARIANT_MULTIPLIERS

----------------------------------------------------------------------------
(* handleEquipmentPickup on given pickups (specification EquipSpec): a new   *)
(* game of any character, and up to MaxPickups pieces of the catalogue found *)
(* one after the other.                                                      *)

MaxPickups == 3

EquipmentIds == { EQUIPMENT_DEFINITIONS[k].id : k \in 1..Len(EQUIPMENT_DEFINITIONS) }

\* the player's equipment and the stats it bears on
StatsOf(g) ==
    [equipment |-> g.player.equipment, attack |-> g.player.attack,
     defense |-> g.player.defense, maxHp |-> g.player.maxHp]

EquipInit ==
    /\ \E character \in Characters :
          game = [createNewGame(character, Layout, DrawsD) EXCEPT !.items = <<>>,
                                                                 !.enemies = <<>>]
    /\ turn = NoTurn(game)
    /\ turns = 0
    /\ ConnIdle

\* handleEquipmentPickup(state, item, itemIndex) has returned r; first keeps
\* the player's stats as they were after the first pickup
PickedUp(id, r) ==
    /\ game' = r.g
    /\ turn' = [kind |-> "pickup", pre |-> game, events |-> r.events, equipment |-> id,
                first |-> IF turn.kind = "pickup" THEN turn.first ELSE StatsOf(r.g)]

\* the player steps on a piece of equipment lying at the end of state.items
Pickup(id) ==
    /\ turns < MaxPickups
    /\ PickedUp(id,
                handleEquipmentPickup(
                  [game EXCEPT !.items = Append(@, [id |-> ItemId(game.floor, turns + 1),
                                                    type |-> "equipment",
                                                    x |-> game.player.x, y |-> game.player.y,
                                                    value |-> 0, equipment |-> id])],
                  Len(game.items) + 1))
    /\ turns' = turns + 1
    /\ UNCHANGED connVars

EquipNext == \E id \in EquipmentIds : Pickup(id)

EquipSpec == EquipInit /\ [][EquipNext]_vars

\* the sum of one bonus over the pieces equipped
EquippedBonus(g, bonus) ==
    LET of(slot) == IF g.player.equipment[slot] = None THEN 0
                    ELSE EquipmentById(g.player.equipment[slot])[bonus]
    IN  of("weapon") + of("shield") + of("armor") + of("ranged")

\* C36: after any sequence of equipment pickups the player's attack, defense
\* and maxHp are their values without equipment plus the bonuses of the
\* pieces now equipped, so whenever the player again wears what was worn
\* after the first pickup the stats are those of that moment.
C36_BonusesAccountedExactly ==
    /\ game.player.attack
         = CHARACTER_STATS[game.player.character].attack + EquippedBonus(game, "attackBonus")
    /\ game.player.defense
         = CHARACTER_STATS[game.player.character].defense
             + EquippedBonus(game, "defenseBonus")
    /\ game.player.maxHp
         = CHARACTER_STATS[game.player.character].maxHp + EquippedBonus(game, "hpBonus")
    /\ game.player.hp <= game.player.maxHp
    /\ (turn.kind = "pickup" /\ game.player.equipment = turn.first.equipment)
       => StatsOf(game) = turn.first

\* a pickup that replaced a piece bearing on the stats by a better one
C36_Witness ==
    /\ turn.kind = "pickup"
    /\ turns = MaxPickups
    /\ \E e \in 1..Len(turn.events) :
          /\ turn.events[e].type = "equipment_equipped"
          /\ turn.pre.player.equipment[turn.events[e].slot] # None
          /\ turn.events[e].slot = "armor"

\* the piece first equipped found again after a better one has replaced it:
\* it stays on the ground and the stats remain those of the better piece
C36_WitnessFoundAgain ==
    /\ turn.kind = "pickup"
    /\ turns = MaxPickups
    /\ turn.equipment = turn.first.equipment[EquipmentById(turn.equipment).slot]
    /\ game.player.equipment # turn.first.equipment
    /\ turn.events[1].type = "equipment_found"

\* the piece equipped found again while it is worn: nothing changes
C36_WitnessSameAgain ==
    /\ turn.kind = "pickup"
    /\ turns = 2
    /\ turn.equipment = turn.first.equipment[EquipmentById(turn.equipment).slot]
    /\ StatsOf(game) = turn.first

----------------------------------------------------------------------------
(* useGameSocket: the throttle and the cap of sendMove and sendAttack        *)
(* (specification ThrottleSpec).  conns[Player] holds the hook's refs: the   *)
(* reading of Date.now(), lastMoveTimeRef, lastAttackTimeRef,                *)
(* pendingMessagesRef, whether wsRef is an open socket, the intents sent on  *)
(* that socket the server has not answered yet, when the last intent of each *)
(* kind was handed to ws.send, and the record of the latest one: its kind,   *)
(* the time since the one of the same kind before it, and the two counts as  *)
(* they were when it was sent.                                               *)

MOVE_THROTTLE_MS == 80
ATTACK_COOLDOWN_MS == 400

MaxTicks == 3

\* how often the socket opens: the first connection and the reconnections
MaxOpens == 2

\* what Date.now() reads when the hook mounts, and by how much it advances
ClockStarts == {1000}
ClockSteps == {1, 79, 320}

\* ws.send(JSON.stringify(message)), pending being pendingMessagesRef before
Sent(r, type, pending) ==
    [r EXCEPT !.inFlight = @ + 1, !.count = @ + 1, !.sentAt[type] = <<r.now>>,
              !.latest = << [type |-> type,
                             gap |-> IF r.sentAt[type] = <<>> THEN <<>>
                                     ELSE << r.now - r.sentAt[type][1] >>,
                             pending |-> pending, inFlight |-> r.inFlight] >>]

\* a send that the cap does not gate
sendIntentUncapped(r, type, last, wait) ==
    IF r.now - r[last] < wait THEN r
    ELSE IF r.open
    THEN Sent([r EXCEPT ![last] = r.now, !.pendingMessages = @ + 1], type,
              r.pendingMessages)
    ELSE [r EXCEPT ![last] = r.now]

\* the common body of sendMove and sendAttack: last names the ref compared
\* with Date.now(), wait is the throttle
sendIntent(r, type, last, wait) ==
    IF r.now - r[last] < wait THEN r
    ELSE IF r.pendingMessages >= MAX_PENDING_MESSAGES THEN r
    ELSE IF r.open
    THEN Sent([r EXCEPT ![last] = r.now, !.pendingMessages = @ + 1], type,
              r.pendingMessages)
    ELSE [r EXCEPT ![last] = r.now]

sendMove(r) == sendIntent(r, "move", "lastMoveTime", MOVE_THROTTLE_MS)

sendAttack(r) == sendIntent(r, "attack", "lastAttackTime", ATTACK_COOLDOWN_MS)

ThrottleInit ==
    /\ \E sc \in Scenarios :
          /\ ValidLayout(Layout)
          /\ ValidDraws(Layout, sc.floor, sc.character, sc.dr)
          /\ game = StartGame(sc)
    /\ game.floor = 1
    /\ turn = NoTurn(game)
    /\ turns = 0
    /\ sess = <<>> /\ cache = <<>> /\ db = <<>> /\ board = <<>>
    /\ sent = <<>> /\ budget = <<>> /\ proc = <<>>
    /\ \E now \in ClockStarts :
          conns = [c \in {Player} |->
                     [now |-> now, lastMoveTime |-> 0, lastAttackTime |-> 0,
                      pendingMessages |-> 0, open |-> FALSE, opens |-> 0,
                      inFlight |-> 0, count |-> 0,
                      sentAt |-> [move |-> <<>>, attack |-> <<>>], latest |-> <<>>]]

ClientStep(r) ==
    /\ conns' = [conns EXCEPT ![Player] = r]
    /\ UNCHANGED <<game, turn, turns, sess, cache, db, board, sent, budget, proc>>

\* time passes
ClockAdvance(ms) ==
    /\ turns < MaxTicks
    /\ conns' = [conns EXCEPT ![Player].now = @ + ms]
    /\ turns' = turns + 1
    /\ UNCHANGED <<game, turn, sess, cache, db, board, sent, budget, proc>>

\* the player presses a movement key
SendMove ==
    /\ conns[Player].count < MaxIntents
    /\ ClientStep(sendMove(conns[Player]))

\* the player presses the attack key
SendAttack ==
    /\ conns[Player].count < MaxIntents
    /\ ClientStep(sendAttack(conns[Player]))

\* ws.onopen
OnOpen ==
    /\ ~conns[Player].open
    /\ conns[Player].opens < MaxOpens
    /\ ClientStep([conns[Player] EXCEPT !.open = TRUE, !.opens = @ + 1,
                                        !.pendingMessages = 0])

\* ws.onclose: wsRef.current = null; what the server still sends is lost
OnClose ==
    /\ conns[Player].open
    /\ ClientStep([conns[Player] EXCEPT !.open = FALSE, !.inFlight = 0])

\* ws.onmessage with the server's answer to the oldest intent in flight
OnMessage(type) ==
    /\ conns[Player].open
    /\ conns[Player].inFlight > 0
    /\ ClientStep([conns[Player] EXCEPT !.inFlight = @ - 1,
                                        !.pendingMessages = onmessage(Player, [type |-> type])])

ThrottleNext ==
    \/ \E ms \in ClockSteps : ClockAdvance(ms)
    \/ SendMove
    \/ SendAttack
    \/ OnOpen
    \/ OnClose
    \/ \E type \in {"update", "error"} : OnMessage(type)

ThrottleSpec == ThrottleInit /\ [][ThrottleNext]_vars

\* C37: the client sends move intents at least 80 ms apart and attack intents
\* at least 400 ms apart, and never sends a move or attack while 3 sent
\* intents are unacknowledged; its count of unacknowledged intents stays
\* within 0..3.
C37_ThrottledAndCapped ==
    LET r == conns[Player]
    IN  /\ r.pendingMessages \in 0..3
        /\ r.latest # <<>>
           => /\ r.latest[1].gap # <<>>
                 => r.latest[1].gap[1] >= (IF r.latest[1].type = "move" THEN 80 ELSE 400)
              /\ r.latest[1].pending < 3
              /\ r.latest[1].inFlight < 3

\* a move sent exactly 80 ms after the move before it, as the third intent
\* unacknowledged
C37_Witness ==
    LET r == conns[Player]
    IN  /\ r.pendingMessages = 3
        /\ r.inFlight = 3
        /\ r.latest # <<>>
        /\ r.latest[1].type = "move"
        /\ r.latest[1].gap = <<80>>

\* an attack sent exactly 400 ms after the attack before it
C37_WitnessAttacks ==
    /\ conns[Player].latest # <<>>
    /\ conns[Player].latest[1].type = "attack"
    /\ conns[Player].latest[1].gap = <<400>>

----------------------------------------------------------------------------
(* Enemy movement within one turn (specification Spec)                       *)

\* the enemies of the turn's first state that are still on the floor
SameEnemies ==
    { <<i, j>> \in (1..Len(turn.pre.enemies)) \X (1..Len(game.enemies)) :
        turn.pre.enemies[i].id = game.enemies[j].id }

\* C38: in one turn every enemy's position changes by at most one orthogonal
\* step, and the cell an enemy ends the turn on is inside the map and is not
\* a wall.
C38_EnemiesStepOneCell ==
    /\ \A p \in SameEnemies :
          Abs(game.enemies[p[2]].x - turn.pre.enemies[p[1]].x)
            + Abs(game.enemies[p[2]].y - turn.pre.enemies[p[1]].y) <= 1
    /\ \A j \in 1..Len(game.enemies) :
          /\ InBounds(game.map, EnemyCell(game.enemies[j]))
          /\ TileAt(game.map, EnemyCell(game.enemies[j])) # "wall"

\* a turn in which one enemy has stepped towards the player and another,
\* fleeing, away from the player
C38_Witness ==
    /\ turn.kind \in {"move", "attack"}
    /\ \E p, q \in SameEnemies :
          /\ p # q
          /\ EnemyCell(game.enemies[p[2]]) # EnemyCell(turn.pre.enemies[p[1]])
          /\ ManhattanToPlayer(game, p[2]) < ManhattanToPlayer(turn.pre, p[1])
          /\ EnemyCell(game.enemies[q[2]]) # EnemyCell(turn.pre.enemies[q[1]])
          /\ game.enemies[q[2]].behavior = "flee"
          /\ 10 * game.enemies[q[2]].hp < 3 * game.enemies[q[2]].maxHp

\* a turn in which an enemy has stepped
C38_WitnessStep ==
    /\ turn.kind \in {"move", "attack"}
    /\ \E p \in SameEnemies :
          EnemyCell(game.enemies[p[2]]) # EnemyCell(turn.pre.enemies[p[1]])

----------------------------------------------------------------------------
(* A finished game stays finished (specification ConnSpec)                   *)

Finished(g) == g.status \in {"dead", "won"}

\* processMove, processAttack and descendStairs return no event and leave g
\* as it is
EngineIdle(g) ==
    /\ \A direction \in Directions :
          /\ processMove(g, direction, Layout, DrawsB).g = g
          /\ processMove(g, direction, Layout, DrawsB).events = <<>>
    /\ processAttack(g).g = g
    /\ processAttack(g).events = <<>>
    /\ descendStairs(g, Layout, DrawsB).g = g
    /\ descendStairs(g, Layout, DrawsB).events = <<>>

\* C39: once status is dead or won, no later move, attack or descend changes
\* the game state or emits an event, and the connection handler answers every
\* later move or attack with an error without running a turn.
C39_FinishedGameStaysFinished ==
    /\ [](Finished(game) => EngineIdle(game))
    /\ [][ Finished(game)
           => /\ turns' = turns
              /\ game' = game ]_vars

\* the engine half of C39 alone
C39_EngineIdleWhenFinished ==
    /\ Finished(game) => EngineIdle(game)
    /\ cache # <<>> /\ Finished(cache[1]) => EngineIdle(cache[1])

----------------------------------------------------------------------------
(* The message queue drains (specification DrainSpec): one connection, up to *)
(* MaxIntents frames of the kinds that end a handler in each of its ways (a  *)
(* reply, an early return, an exception), and store writes that may fail.    *)

DrainFrames == { Msg("move", "right"), Msg("pause", None), Msg("garbage", None) }

DrainInit == ConnStart(MaxIntents, MaxFailures)

DrainNext ==
    \/ Connect(Player)
    \/ Found(Player)
    \/ \E frame \in DrainFrames : Receive(Player, frame)
    \/ Immediate(Player)
    \/ SaveDone(Player)
    \/ InsertDone(Player)
    \/ Close(Player)
    \/ UnregDone(Player)

\* the event loop runs every callback that is ready: a resolved findOne or
\* write and the setImmediate callback queued by the finally block
DrainFairness ==
    /\ WF_vars(Found(Player))
    /\ WF_vars(Immediate(Player))
    /\ WF_vars(SaveDone(Player))
    /\ WF_vars(InsertDone(Player))
    /\ WF_vars(UnregDone(Player))

DrainSpec == DrainInit /\ [][DrainNext]_vars /\ DrainFairness

\* no message of the connection is waiting or being handled
Drained(c) == conns[c].queue = <<>> /\ ~conns[c].processingMessage

\* no callback of the connection's handler is ready to run: neither the
\* setImmediate callback (the guard of Immediate) nor the continuation of an
\* await (the guards of SaveDone and InsertDone)
HandlerAtRest(c) ==
    /\ Busy(c) \/ conns[c].queue = <<>>
    /\ conns[c].await # "save"
    /\ conns[c].await # "insert"

\* what is left to do for the messages of connection c: those it may still
\* send, those queued, and the awaits of the one in hand
WorkLeft(c) ==
    4 * budget.messages + 3 * Len(conns[c].queue)
      + (CASE conns[c].await = "save" -> 2
           [] conns[c].await = "insert" -> 1
           [] OTHER -> 0)

C40_WitnessAfterException ==
    /\ Drained(Player)
    /\ budget.messages = 0
    /\ \E k \in 1..Len(sent[Player]) :
          sent[Player][k] = ErrorFrame("Invalid message format")
    /\ turns >= 2

====
